---- MODULE Spec2Model ----
(***************************************************************************)
(* Transaction analytics engine (utils/database.py, utils/data_fetcher.py) *)
(* the per-user approach selector (utils/report_generator.py, main.py)     *)
(* and the segment evaluator (utils/prompt_eval.py) of the MayaProject    *)
(* repository, as state machines.                                          *)
(*                                                                         *)
(* Amounts are whole currency units.  A timestamp is a record              *)
(* [year, month, day, hour]; TsKey orders timestamps as datetime does.     *)
(***************************************************************************)
EXTENDS Integers, Sequences, FiniteSets, TLC

\* ------------------------------------------------------------------ bounds
\* Largest number of rows of the source file in the store and profile queries.
MaxRows == 2
\* Largest number of rows of the source file in the active-user and the segment queries.
MaxFetcherRows == 3
\* Largest number of DataFetcher constructions over the same file and database.
MaxConstruct == 2
\* Largest number of records in one batch given to insert_transactions directly.
MaxBatch == 3
\* Largest number of rows the table holds in the runs of direct inserts.
MaxStoreRows == 3

\* ------------------------------------------------------- input alphabets
UserIds == {"u1", "u2"}
Types == {"SPEND", "CASH-IN"}
Methods == {"qr", "wallet"}
Amounts == {50, 100}
Segments == {"A", "B"}

Ts(y, m, d, h) == [year |-> y, month |-> m, day |-> d, hour |-> h]
\* two ordinary days of March 2025, and the last day of March at noon
Timestamps == {Ts(2025, 3, 10, 8), Ts(2025, 3, 20, 8), Ts(2025, 3, 31, 12)}

\* the (year, month) pairs the queries are called with
Periods == {<<2025, 3>>, <<2025, 4>>}

\* datetime ordering
TsKey(t) == ((t.year * 12 + t.month) * 32 + t.day) * 24 + t.hour

\* Optional[int]: None is <<>>, the integer n is <<n>>
None == <<>>
Some(n) == <<n>>

\* ---------------------------------------------------------------- helpers
SeqsUpTo(S, n) == UNION {[1..k -> S] : k \in 0..n}

Min(a, b) == IF a <= b THEN a ELSE b

RECURSIVE SumAmounts(_)
\* SUM(amount) / sum(t.amount ...) over a sequence of rows
SumAmounts(s) == IF s = <<>> THEN 0 ELSE Head(s).amount + SumAmounts(Tail(s))

RECURSIVE FirstSeen(_)
\* the distinct elements of s in order of first appearance (dict / Counter key order)
FirstSeen(s) ==
  IF s = <<>> THEN <<>>
  ELSE LET h == Head(s)
       IN  <<h>> \o SelectSeq(FirstSeen(Tail(s)), LAMBDA x : x # h)

\* seq[:max_users] for max_users None or a non-negative int
Slice(s, max_users) ==
  IF max_users = None THEN s ELSE SubSeq(s, 1, Min(max_users[1], Len(s)))

Range(s) == {s[i] : i \in 1..Len(s)}

\* calendar.monthrange(year, month)[1]
MonthRange(year, month) ==
  IF month \in {4, 6, 9, 11} THEN 30
  ELSE IF month = 2
       THEN (IF (year % 4 = 0 /\ year % 100 # 0) \/ year % 400 = 0 THEN 29 ELSE 28)
       ELSE 31

\* ------------------------------------------------------------------ state
VARIABLES
  data,          \* DataFetcher.data: the rows of the source file, in file order
  store,         \* the transactions table of the database, in insertion order
  user_ids,      \* DataFetcher.user_ids
  constructed,   \* how many times DataFetcher was constructed over (file, database)
  op,            \* the last operation called, with its arguments
  ret,           \* what it returned (or raised)
  caller,        \* who runs the per-user selection: "none", "generate_report" or "main"
  pc,            \* where the caller stands
  ci,            \* index of the component being handled
  ai,            \* index of the approach being evaluated
  best_similarity,
  chosen_approach,
  results,       \* the candidates evaluated so far for the current component
  approach,      \* component -> approach selected
  evaluation,    \* generate_report's component_metrics
  report_components,   \* generate_report's component -> output text
  selected_output,     \* component -> llm_output_text of _best_approach's chosen candidate
  invocations,         \* (component, approach) -> number of chain.invoke calls
  eval_call,           \* the arguments of prompt_evaluation: year, month, user_ids_by_segment
  chain_outcomes,      \* component -> what an invocation of a chain can do
  epc,                 \* where prompt_evaluation stands
  pos,                 \* the (segment, user, component, approach) it is at
  transaction_summary, \* the profile text of the user being processed
  detailed_results,
  segment_results,
  cross_segment_similarity,
  best_approaches,
  writer,        \* the connection of an insert_transactions call in progress
  reader         \* the connection of a get_monthly_profile call in progress

dataVars == <<data, store, user_ids, constructed, op, ret>>
selVars == <<caller, pc, ci, ai, best_similarity, chosen_approach, results,
             approach, evaluation, report_components, selected_output,
             invocations>>
evalVars == <<eval_call, chain_outcomes, epc, pos, transaction_summary,
              detailed_results, segment_results, cross_segment_similarity,
              best_approaches>>
txnVars == <<writer, reader>>
vars == <<dataVars, selVars, evalVars, txnVars>>

RawRows ==
  [user_id : UserIds, timestamp : Timestamps, transaction_type : Types,
   transaction_method : Methods, amount : Amounts, segment_tag : Segments]

\* ----------------------------------------------------------- TransactionDB
\* The value of an amount before it is stored.  A number n is the field
\* amount of its record; any other Python value is the field amount_object:
\* None, float('nan') or a str.
Float(n) == [float |-> n]
NoneValue == [none |-> TRUE]
NaNValue == [nan |-> TRUE]
Str(text) == [str |-> text]

\* t.get('amount') / row['amount']
get_amount(t) ==
  IF "amount" \in DOMAIN t THEN Float(t.amount)
  ELSE IF "amount_object" \in DOMAIN t THEN t.amount_object
  ELSE NoneValue

\* float(text) of the texts of the alphabet: the number, or no entry (ValueError)
Numerals == [text \in {"50"} |-> 50]

\* TransactionDB._format_amount
format_amount(amount) ==
  IF "nan" \in DOMAIN amount \/ "none" \in DOMAIN amount THEN 0
  ELSE IF "str" \in DOMAIN amount
       THEN IF amount.str = "" THEN 0
            ELSE IF amount.str \in DOMAIN Numerals THEN Numerals[amount.str]
            ELSE 0
  ELSE amount.float

\* a plausible bug: day for month in the derived column
ProcessedRow_day(t) ==
  [user_id |-> t.user_id, timestamp |-> t.timestamp,
   transaction_type |-> t.transaction_type,
   transaction_method |-> t.transaction_method,
   amount |-> format_amount(get_amount(t)), segment_tag |-> t.segment_tag,
   year |-> t.timestamp.year, month |-> t.timestamp.day]

\* one tuple of processed_data
ProcessedRow(t) ==
  [user_id |-> t.user_id, timestamp |-> t.timestamp,
   transaction_type |-> t.transaction_type,
   transaction_method |-> t.transaction_method,
   amount |-> format_amount(get_amount(t)), segment_tag |-> t.segment_tag,
   year |-> t.timestamp.year, month |-> t.timestamp.month]

\* a plausible bug: INSERT OR IGNORE on the logical event (rows already stored are skipped)
insert_transactions_dedup(table, transactions) ==
  table \o SelectSeq([i \in 1..Len(transactions) |-> ProcessedRow(transactions[i])],
                     LAMBDA r : r \notin Range(table))

\* a plausible bug: a record whose amount is not a number is left out
insert_transactions_reject(table, transactions) ==
  table \o [i \in 1..Len(SelectSeq(transactions, LAMBDA t : "amount" \in DOMAIN t)) |->
             ProcessedRow(SelectSeq(transactions, LAMBDA t : "amount" \in DOMAIN t)[i])]

\* TransactionDB.insert_transactions: the table after the batch is appended
insert_transactions(table, transactions) ==
  IF transactions = <<>> THEN table
  ELSE table \o [i \in 1..Len(transactions) |-> ProcessedRow(transactions[i])]

\* the keys insert_transactions reads with t[...] ('amount' is read with t.get)
RequiredFields ==
  {"user_id", "timestamp", "transaction_type", "transaction_method", "segment_tag"}

\* TransactionDB.insert_transactions on dicts that may lack a key: t[key] of
\* a missing key raises KeyError while processed_data is built, before
\* executemany, and nothing is caught
insert_outcome(table, transactions) ==
  IF \E i \in 1..Len(transactions) : ~(RequiredFields \subseteq DOMAIN transactions[i])
  THEN [status |-> "KeyError", table |-> table]
  ELSE [status |-> "ok", table |-> insert_transactions(table, transactions)]

\* WHERE user_id = ? AND year = ? AND month = ?
MonthRows(user_id, year, month) ==
  SelectSeq(store, LAMBDA r : r.user_id = user_id /\ r.year = year /\ r.month = month)

OfType(rows, type) == SelectSeq(rows, LAMBDA r : r.transaction_type = type)

\* the (method, type) groups of GROUP BY transaction_method, transaction_type,
\* in order of first appearance (SQL leaves the order of the groups open)
MethodGroups(rows) ==
  FirstSeen([i \in 1..Len(rows) |->
               <<rows[i].transaction_method, rows[i].transaction_type>>])

\* a plausible bug: GROUP BY transaction_method alone (the type shown is the
\* type of the group's first row, the count and the sum run over both types)
methods_summary_by_method(rows) ==
  LET g == FirstSeen([i \in 1..Len(rows) |->
               <<rows[i].transaction_method, rows[i].transaction_type>>])
      firsts == SelectSeq(g, LAMBDA e :
                  \A j \in 1..Len(g) :
                     g[j][1] = e[1] =>
                       (\E i \in 1..Len(g) : g[i] = e /\ i <= j))
  IN  [i \in 1..Len(firsts) |->
        LET members == SelectSeq(rows, LAMBDA r :
                          r.transaction_method = firsts[i][1])
        IN  [method |-> firsts[i][1], type |-> firsts[i][2],
             count |-> Len(members), total_amount |-> SumAmounts(members)]]

\* the second query of get_monthly_profile
methods_summary(rows) ==
  LET g == MethodGroups(rows)
  IN  [i \in 1..Len(g) |->
        LET members == SelectSeq(rows, LAMBDA r :
                          /\ r.transaction_method = g[i][1]
                          /\ r.transaction_type = g[i][2])
        IN  [method |-> g[i][1], type |-> g[i][2],
             count |-> Len(members), total_amount |-> SumAmounts(members)]]

\* TransactionDB.get_monthly_profile
get_monthly_profile(user_id, year, month) ==
  LET rows == MonthRows(user_id, year, month)
  IN  [total_spend |-> SumAmounts(OfType(rows, "SPEND")),
       spend_count |-> Len(OfType(rows, "SPEND")),
       total_cash_in |-> SumAmounts(OfType(rows, "CASH-IN")),
       cash_in_count |-> Len(OfType(rows, "CASH-IN")),
       methods_summary |-> methods_summary(rows),
       segments |-> {rows[i].segment_tag : i \in 1..Len(rows)}]

\* TransactionDB.get_active_users(start_date, end_date, min_transactions):
\* the rows (user_id, transaction_count, total_spend, total_cash_in) of the
\* users with enough rows WHERE timestamp BETWEEN start_date AND end_date
\* (ISO texts of one format compare as the datetimes do)
get_active_users(start_date, end_date, min_transactions) ==
  LET rows == SelectSeq(store, LAMBDA r :
                /\ TsKey(start_date) <= TsKey(r.timestamp)
                /\ TsKey(r.timestamp) <= TsKey(end_date))
      of(u) == SelectSeq(rows, LAMBDA r : r.user_id = u)
  IN  {[user_id |-> u, transaction_count |-> Len(of(u)),
        total_spend |-> SumAmounts(OfType(of(u), "SPEND")),
        total_cash_in |-> SumAmounts(OfType(of(u), "CASH-IN"))] :
       u \in {v \in {rows[i].user_id : i \in 1..Len(rows)} :
                Len(of(v)) >= min_transactions}}

\* TransactionDB.get_user_segment_stats: one dict per segment_tag (the list is
\* ordered by total_spend, largest first; its rows are given here)
get_user_segment_stats ==
  LET of(g) == SelectSeq(store, LAMBDA r : r.segment_tag = g)
  IN  {[segment_tag |-> g,
        user_count |-> Cardinality({of(g)[i].user_id : i \in 1..Len(of(g))}),
        total_spend |-> SumAmounts(OfType(of(g), "SPEND")),
        spend_count |-> Len(OfType(of(g), "SPEND")),
        total_cash_in |-> SumAmounts(OfType(of(g), "CASH-IN")),
        cash_in_count |-> Len(OfType(of(g), "CASH-IN"))] :
       g \in {store[i].segment_tag : i \in 1..Len(store)}}

\* ------------------------------------------------------------- DataFetcher
\* pd.to_numeric(self.data['amount'], errors='coerce'): a number stays, a
\* text that reads as a number becomes it, everything else becomes NaN
to_numeric(amount) ==
  IF "float" \in DOMAIN amount THEN amount
  ELSE IF "str" \in DOMAIN amount /\ amount.str \in DOMAIN Numerals
       THEN Float(Numerals[amount.str])
  ELSE NaNValue

\* DataFetcher.__init__: the transaction dict of one row of the data, with
\* 'amount': float(row['amount']) if pd.notna(row['amount']) else None
transaction(row) ==
  LET amount == to_numeric(get_amount(row))
      keys == (DOMAIN row \ {"amount", "amount_object"})
                \cup {IF "float" \in DOMAIN amount THEN "amount" ELSE "amount_object"}
  IN  [k \in keys |->
         IF k = "amount" THEN amount.float
         ELSE IF k = "amount_object" THEN NoneValue
         ELSE row[k]]

\* the list transactions that DataFetcher.__init__ inserts
transactions_of(rows) == [i \in 1..Len(rows) |-> transaction(rows[i])]

\* DataFetcher._month_start_date: datetime(year, month, 1)
month_start_date(year, month) == Ts(year, month, 1, 0)

\* DataFetcher._month_end_date: datetime(year, month, last_day), i.e. midnight
month_end_date(year, month) == Ts(year, month, MonthRange(year, month), 0)

\* self.data[(timestamp >= start_of_month) & (timestamp <= end_of_month)]
monthly_data(year, month) ==
  SelectSeq(data, LAMBDA r :
     /\ TsKey(r.timestamp) >= TsKey(month_start_date(year, month))
     /\ TsKey(r.timestamp) <= TsKey(month_end_date(year, month)))

\* DataFetcher._monthly_transactions_by_user: Counter(monthly_data['user_id']),
\* a sequence of [user_id, count] in the Counter's key order (first appearance)
monthly_transactions_by_user(year, month) ==
  LET md == monthly_data(year, month)
      ids == [i \in 1..Len(md) |-> md[i].user_id]
      keys == FirstSeen(ids)
  IN  [i \in 1..Len(keys) |->
        [user_id |-> keys[i],
         count |-> Len(SelectSeq(ids, LAMBDA x : x = keys[i]))]]

\* DataFetcher._monthly_spend(year, month, user_id)[0], user_id given
monthly_spend(year, month, user_id) ==
  get_monthly_profile(user_id, year, month).total_spend

\* DataFetcher._monthly_cash_in(year, month, user_id)[0], user_id given
monthly_cash_in(year, month, user_id) ==
  get_monthly_profile(user_id, year, month).total_cash_in

Raised(e) == [status |-> e, value |-> <<>>]
Returned(v) == [status |-> "ok", value |-> v]

\* a plausible bug: 'or' for 'and' in the spend / cash-in filter
active_users_or(year, month, min_transactions, max_users, min_spend, min_cash_in) ==
  LET user_counts == monthly_transactions_by_user(year, month)
      active == SelectSeq(user_counts, LAMBDA c : c.count >= min_transactions)
      filtered_users ==
        IF min_spend > 0 \/ min_cash_in > 0
        THEN SelectSeq(active, LAMBDA c :
                \/ monthly_spend(year, month, c.user_id) >= min_spend
                \/ monthly_cash_in(year, month, c.user_id) >= min_cash_in)
        ELSE active
      chosen_users == Slice(filtered_users, max_users)
  IN  Returned([i \in 1..Len(chosen_users) |-> chosen_users[i].user_id])

\* DataFetcher.active_users
active_users(year, month, min_transactions, max_users, min_spend, min_cash_in) ==
  IF ~(1 <= month /\ month <= 12) THEN Raised("ValueError")
  ELSE
  LET user_counts == monthly_transactions_by_user(year, month)
      active == SelectSeq(user_counts, LAMBDA c : c.count >= min_transactions)
      filtered_users ==
        IF min_spend > 0 \/ min_cash_in > 0
        THEN SelectSeq(active, LAMBDA c :
                /\ monthly_spend(year, month, c.user_id) >= min_spend
                /\ monthly_cash_in(year, month, c.user_id) >= min_cash_in)
        ELSE active
      chosen_users == Slice(filtered_users, max_users)
  IN  Returned([i \in 1..Len(chosen_users) |-> chosen_users[i].user_id])

\* a plausible bug: idxmin for idxmax (the earliest transaction's segment)
latest_segment_idxmin(user_id, year, month) ==
  LET user_rows == SelectSeq(monthly_data(year, month), LAMBDA r : r.user_id = user_id)
      low == CHOOSE i \in 1..Len(user_rows) :
               /\ \A j \in 1..Len(user_rows) :
                     TsKey(user_rows[i].timestamp) <= TsKey(user_rows[j].timestamp)
               /\ \A j \in 1..(i - 1) :
                     TsKey(user_rows[j].timestamp) > TsKey(user_rows[i].timestamp)
  IN  user_rows[low].segment_tag

\* user_rows.loc[user_rows['timestamp'].idxmax()]['segment_tag']:
\* idxmax is the first row holding the maximum
latest_segment(user_id, year, month) ==
  LET user_rows == SelectSeq(monthly_data(year, month), LAMBDA r : r.user_id = user_id)
      top == CHOOSE i \in 1..Len(user_rows) :
               /\ \A j \in 1..Len(user_rows) :
                     TsKey(user_rows[i].timestamp) >= TsKey(user_rows[j].timestamp)
               /\ \A j \in 1..(i - 1) :
                     TsKey(user_rows[j].timestamp) < TsKey(user_rows[i].timestamp)
  IN  user_rows[top].segment_tag

\* the user_segments look-up of get_segment_users, as [user_id, segment] in
\* insertion order (the order of the active users)
segment_lookup(active, year, month) ==
  LET present_ids == Range([i \in 1..Len(monthly_data(year, month)) |->
                              monthly_data(year, month)[i].user_id])
      present == SelectSeq(active, LAMBDA u : u \in present_ids)
  IN  [i \in 1..Len(present) |->
        [user_id |-> present[i],
         segment |-> latest_segment(present[i], year, month)]]

\* segment_users_dict[segment]: the users of one segment, in insertion order
segment_members(lookup, segment) ==
  LET mine == SelectSeq(lookup, LAMBDA e : e.segment = segment)
  IN  [i \in 1..Len(mine) |-> mine[i].user_id]

\* a plausible bug: '>' for '>=' in the segment-size filter
keep_segment_strict(users, max_users) == Len(users) > max_users

\* the filter of the returned comprehension: len(users) >= max_users
keep_segment(users, max_users) == Len(users) >= max_users

\* DataFetcher.get_segment_users: [lookup, groups], groups the returned mapping
get_segment_users(year, month, min_transactions, max_users, min_spend, min_cash_in) ==
  IF ~(1 <= month /\ month <= 12) THEN Raised("ValueError")
  ELSE
  LET active == active_users(year, month, min_transactions, None,
                             min_spend, min_cash_in).value
      lookup == segment_lookup(active, year, month)
      segs == {lookup[i].segment : i \in 1..Len(lookup)}
      kept == {s \in segs : keep_segment(segment_members(lookup, s), max_users)}
  IN  Returned([lookup |-> lookup,
                groups |-> [s \in kept |->
                              Slice(segment_members(lookup, s), Some(max_users))]])

\* DataFetcher._format_tag on the segment tags of the alphabet:
\* tag.lower().replace('_', ' ')
format_tag(tag) == IF tag = "A" THEN "a" ELSE IF tag = "B" THEN "b" ELSE tag

\* DataFetcher._monthly_transactions(year, month, user_id), user_id a non-empty
\* string: TransactionDB has no get_monthly_transactions (its definition is
\* commented out), so the look-up of the attribute raises
monthly_transactions(year, month, user_id) ==
  IF ~(1 <= month /\ month <= 12) THEN Raised("ValueError")
  ELSE IF user_id \notin user_ids THEN Returned(<<>>)
  ELSE Raised("AttributeError")

\* f"{x:.2f}" of a whole amount, in hundredths
Format2f(x) == x * 100

\* f"{ratio:.2%}" of spend / cash_in, in hundredths of a percent
FormatRatio(spend, cash_in) == (spend * 10000 * 2 + cash_in) \div (2 * cash_in)

\* the lines "  {date}: {amount:.2f} via {method}" of the transactions of one
\* type, sorted by timestamp (sorted() is stable)
RECURSIVE transaction_lines(_)
transaction_lines(ts) ==
  IF ts = <<>> THEN <<>>
  ELSE LET low == CHOOSE i \in 1..Len(ts) :
                    /\ \A j \in 1..Len(ts) :
                          TsKey(ts[i].timestamp) <= TsKey(ts[j].timestamp)
                    /\ \A j \in 1..(i - 1) :
                          TsKey(ts[j].timestamp) > TsKey(ts[i].timestamp)
           rest == [k \in 1..(Len(ts) - 1) |-> IF k < low THEN ts[k] ELSE ts[k + 1]]
       IN  <<[line |-> "transaction",
              date |-> <<ts[low].timestamp.year, ts[low].timestamp.month,
                         ts[low].timestamp.day>>,
              amount |-> Format2f(ts[low].amount),
              method |-> ts[low].transaction_method]>>
             \o transaction_lines(rest)

\* the profile_lines of monthly_profile, one record per line
profile_lines(user_id, year, month, profile, transactions) ==
  LET spend_transactions == OfType(transactions, "SPEND")
      cash_in_transactions == OfType(transactions, "CASH-IN")
  IN  <<[line |-> "User", user_id |-> user_id, year |-> year, month |-> month],
        [line |-> "Segments",
         segments |-> {format_tag(t) : t \in profile.segments}],
        [line |-> "Spend", total |-> Format2f(profile.total_spend),
         txns |-> profile.spend_count]>>
      \o (IF spend_transactions # <<>>
          THEN <<[line |-> "Spend transactions:"]>>
                 \o transaction_lines(spend_transactions)
          ELSE <<>>)
      \o <<[line |-> "Cash-in", total |-> Format2f(profile.total_cash_in),
            txns |-> profile.cash_in_count]>>
      \o (IF cash_in_transactions # <<>>
          THEN <<[line |-> "Cash-in transactions:"]>>
                 \o transaction_lines(cash_in_transactions)
          ELSE <<>>)
      \o (IF profile.total_cash_in > 0
          THEN <<[line |-> "Spend/Cash-in ratio",
                  ratio |-> FormatRatio(profile.total_spend, profile.total_cash_in)]>>
          ELSE <<>>)

\* the two error strings monthly_profile returns
UserNotFound(user_id) == [error |-> "User ID not found.", user_id |-> user_id]
InvalidMonth == [error |-> "Invalid month, must be from 1 to 12"]

\* a plausible bug: the month is checked before the user, and an unknown
\* user goes on to the database
monthly_profile_unchecked(year, month, user_id) ==
  IF ~(1 <= month /\ month <= 12) THEN Returned(InvalidMonth)
  ELSE LET profile == get_monthly_profile(user_id, year, month)
           transactions == monthly_transactions(year, month, user_id)
       IN  IF transactions.status # "ok" THEN Raised(transactions.status)
           ELSE Returned([lines |-> profile_lines(user_id, year, month, profile,
                                                  transactions.value)])

\* DataFetcher.monthly_profile(year, month, user_id)
monthly_profile(year, month, user_id) ==
  IF user_id \notin user_ids THEN Returned(UserNotFound(user_id))
  ELSE IF ~(1 <= month /\ month <= 12) THEN Returned(InvalidMonth)
  ELSE LET profile == get_monthly_profile(user_id, year, month)
           transactions == monthly_transactions(year, month, user_id)
       IN  IF transactions.status # "ok" THEN Raised(transactions.status)
           ELSE Returned([lines |-> profile_lines(user_id, year, month, profile,
                                                  transactions.value)])

\* ------------------------------------------------------ per-user selector
\* similarities, cosines and confidences are in thousandths
\* the approaches of a component, in the order _load_prompt_templates declares them
Approaches == <<"zero_shot", "few_shot", "chain_of_thought">>
\* the components of prompt_templates, in declaration order
Components == <<"executive_summary", "recommendations">>

\* chosen_approach = None
NoApproach == "None"
\* float('-inf'), below every similarity
NegInfinity == -1000000
\* best_similarity_for_component = -2.0
MainInitialBest == -2000
\* similarity = -1.0, the penalty for unethical (or, in main, empty) output
Penalty == -1000

\* cosine values the embedding collaborator can produce
Cosines == {-1000, 304, 807}
\* confidence values the ethics collaborator can produce
Confidences == {987}
Flags == {"Safe", "Unsafe"}

\* what one generation call and the collaborators' verdicts on its text can be:
\* the call (or a collaborator) raises, or there is a text with its flag,
\* confidence and cosine to the template; empty says the text is blank
FailedCall ==
  [status |-> "fail", empty |-> FALSE, flag |-> "none", cos |-> 0, confidence |-> 0]
Outcomes ==
  {FailedCall} \cup
  [status : {"ok"}, empty : BOOLEAN, flag : Flags, cos : Cosines,
   confidence : Confidences]

\* float(f"{x:.2f}") on thousandths
Round2(x) ==
  IF x >= 0 THEN ((x + 5) \div 10) * 10 ELSE 0 - (((0 - x) + 5) \div 10) * 10

\* the chains prompt_template | self.llm: one per component and approach
ChainKeys ==
  {<<Components[c], Approaches[a]>> : c \in 1..Len(Components), a \in 1..Len(Approaches)}

\* the text of a generation, known by what the collaborators say of it
OutputText(o) ==
  [empty |-> o.empty, flag |-> o.flag, cos |-> o.cos, confidence |-> o.confidence]

\* chain.invoke was called once more on the chain of (component, approach)
invoked(component, approach_name) ==
  [invocations EXCEPT ![<<component, approach_name>>] = @ + 1]

\* no selection is running
NoSelection ==
  /\ caller = "none"
  /\ pc = "idle"
  /\ ci = 1
  /\ ai = 1
  /\ best_similarity = NegInfinity
  /\ chosen_approach = NoApproach
  /\ results = <<>>
  /\ approach = <<>>
  /\ evaluation = <<>>
  /\ report_components = <<>>
  /\ selected_output = <<>>
  /\ invocations = [k \in ChainKeys |-> 0]

\* d[key] = value on a dict kept as a function
Put(d, key, value) ==
  [k \in DOMAIN d \cup {key} |-> IF k = key THEN value ELSE d[k]]

\* one evaluated candidate of the current component
Candidate(o, similarity) ==
  [approach |-> Approaches[ai], status |-> o.status, empty |-> o.empty,
   flag |-> o.flag, cos |-> o.cos, similarity |-> similarity]

\* app.py: report_generator.generate_report(transaction_summary), approach=None
StartGenerateReport ==
  /\ caller = "none"
  /\ caller' = "generate_report"
  /\ pc' = "select"
  /\ best_similarity' = NegInfinity
  /\ UNCHANGED <<ci, ai, chosen_approach, results, approach, evaluation,
                 report_components, selected_output, invocations>>
  /\ UNCHANGED <<dataVars, evalVars, txnVars>>

\* main(): the loop over components that evaluates the prompting techniques
StartMain ==
  /\ caller = "none"
  /\ caller' = "main"
  /\ pc' = "select"
  /\ best_similarity' = MainInitialBest
  /\ UNCHANGED <<ci, ai, chosen_approach, results, approach, evaluation,
                 report_components, selected_output, invocations>>
  /\ UNCHANGED <<dataVars, evalVars, txnVars>>

\* the similarity _best_approach gives a generated candidate
best_approach_similarity(o) == IF o.flag # "Safe" THEN Penalty ELSE o.cos

\* a plausible bug: >= for > in the comparison with the best so far
BestApproachStep_ge ==
  /\ caller = "generate_report" /\ pc = "select" /\ ai <= Len(Approaches)
  /\ \E o \in Outcomes :
       IF o.status = "fail"
       THEN /\ pc' = "raised"
            /\ UNCHANGED <<ai, best_similarity, chosen_approach, results,
                           selected_output>>
       ELSE LET similarity == best_approach_similarity(o)
            IN  /\ results' = Append(results, Candidate(o, similarity))
                /\ IF similarity >= best_similarity
                   THEN /\ best_similarity' = similarity
                        /\ chosen_approach' = Approaches[ai]
                        /\ selected_output' =
                             Put(selected_output, Components[ci], OutputText(o))
                   ELSE UNCHANGED <<best_similarity, chosen_approach,
                                    selected_output>>
                /\ ai' = ai + 1
                /\ pc' = pc
  /\ invocations' = invoked(Components[ci], Approaches[ai])
  /\ UNCHANGED <<caller, ci, approach, evaluation, report_components>>
  /\ UNCHANGED <<dataVars, evalVars, txnVars>>

\* ReportGenerator._best_approach: one pass of the loop over the approaches;
\* nothing catches a raising call, so it ends generate_report
BestApproachStep ==
  /\ caller = "generate_report" /\ pc = "select" /\ ai <= Len(Approaches)
  /\ \E o \in Outcomes :
       IF o.status = "fail"
       THEN /\ pc' = "raised"
            /\ UNCHANGED <<ai, best_similarity, chosen_approach, results,
                           selected_output>>
       ELSE LET similarity == best_approach_similarity(o)
            IN  /\ results' = Append(results, Candidate(o, similarity))
                /\ IF similarity > best_similarity
                   THEN /\ best_similarity' = similarity
                        /\ chosen_approach' = Approaches[ai]
                        /\ selected_output' =
                             Put(selected_output, Components[ci], OutputText(o))
                   ELSE UNCHANGED <<best_similarity, chosen_approach,
                                    selected_output>>
                /\ ai' = ai + 1
                /\ pc' = pc
  /\ invocations' = invoked(Components[ci], Approaches[ai])
  /\ UNCHANGED <<caller, ci, approach, evaluation, report_components>>
  /\ UNCHANGED <<dataVars, evalVars, txnVars>>

\* the similarity main() gives a generated candidate
main_similarity(o) == IF o.empty THEN Penalty ELSE o.cos

\* main(): one pass of the loop over the approaches, inside try/except
MainStep ==
  /\ caller = "main" /\ pc = "select" /\ ai <= Len(Approaches)
  /\ \E o \in Outcomes :
       IF o.status = "fail"
       THEN /\ results' = Append(results, Candidate(o, Penalty))
            /\ UNCHANGED <<best_similarity, chosen_approach>>
       ELSE LET similarity == main_similarity(o)
            IN  /\ results' = Append(results, Candidate(o, similarity))
                /\ IF similarity > best_similarity
                   THEN /\ best_similarity' = similarity
                        /\ chosen_approach' = Approaches[ai]
                   ELSE UNCHANGED <<best_similarity, chosen_approach>>
  /\ ai' = ai + 1
  /\ invocations' = invoked(Components[ci], Approaches[ai])
  /\ UNCHANGED <<caller, pc, ci, approach, evaluation, report_components,
                 selected_output>>
  /\ UNCHANGED <<dataVars, evalVars, txnVars>>

\* chosen_approach or "chain_of_thought"
or_fallback(chosen) == IF chosen = NoApproach THEN "chain_of_thought" ELSE chosen

\* the end of the loop over the approaches: the selector returns
\* (_best_approach's return, main's if/else on chosen_approach_for_component)
Select ==
  /\ pc = "select" /\ ai > Len(Approaches)
  /\ approach' = Put(approach, Components[ci], or_fallback(chosen_approach))
  /\ pc' = "selected"
  /\ UNCHANGED <<caller, ci, ai, best_similarity, chosen_approach, results,
                 evaluation, report_components, selected_output, invocations>>
  /\ UNCHANGED <<dataVars, evalVars, txnVars>>

\* the loop over the components goes on, or the selection is complete
NextComponent ==
  /\ pc = "selected"
  /\ IF ci < Len(Components)
     THEN /\ ci' = ci + 1
          /\ pc' = "select"
     ELSE /\ ci' = 1
          /\ pc' = "generate"
  /\ ai' = 1
  /\ best_similarity' = IF caller = "main" THEN MainInitialBest ELSE NegInfinity
  /\ chosen_approach' = NoApproach
  /\ results' = <<>>
  /\ UNCHANGED <<caller, approach, evaluation, report_components,
                 selected_output, invocations>>
  /\ UNCHANGED <<dataVars, evalVars, txnVars>>

\* component_metrics[component] of generate_report
component_metrics(o) ==
  [ethical_flag |-> o.flag, confidence |-> Round2(o.confidence),
   similarity_score |-> Round2(o.cos)]

\* ReportGenerator.generate_report: one pass of the loop that generates each
\* component with its approach and computes its metrics
GenerateComponent ==
  /\ pc = "generate" /\ ci <= Len(Components)
  /\ \E o \in Outcomes :
       IF o.status = "fail"
       THEN /\ pc' = "raised"
            /\ UNCHANGED <<ci, evaluation, report_components>>
       ELSE /\ report_components' =
                 Put(report_components, Components[ci], OutputText(o))
            /\ evaluation' = Put(evaluation, Components[ci], component_metrics(o))
            /\ ci' = ci + 1
            /\ pc' = pc
  /\ invocations' = invoked(Components[ci], approach[Components[ci]])
  /\ UNCHANGED <<caller, ai, best_similarity, chosen_approach, results, approach,
                 selected_output>>
  /\ UNCHANGED <<dataVars, evalVars, txnVars>>

\* generate_report returns the structured report
ReturnReport ==
  /\ pc = "generate" /\ ci > Len(Components)
  /\ pc' = "done"
  /\ UNCHANGED <<caller, ci, ai, best_similarity, chosen_approach, results,
                 approach, evaluation, report_components, selected_output,
                 invocations>>
  /\ UNCHANGED <<dataVars, evalVars, txnVars>>

\* ------------------------------------------------------ segment evaluator
\* exact fractions <<numerator, denominator>>, denominator > 0, in lowest terms
RECURSIVE GCD(_, _)
GCD(a, b) == IF b = 0 THEN a ELSE GCD(b, a % b)

Frac(n, d) ==
  LET g == GCD(IF n < 0 THEN 0 - n ELSE n, d)
  IN  <<n \div g, d \div g>>

Zero == Frac(0, 1)
One == Frac(1, 1)
FAdd(x, y) == Frac(x[1] * y[2] + y[1] * x[2], x[2] * y[2])
FSub(x, y) == Frac(x[1] * y[2] - y[1] * x[2], x[2] * y[2])
FMul(x, y) == Frac(x[1] * y[1], x[2] * y[2])
\* x / y for y > 0
FDiv(x, y) == Frac(x[1] * y[2], x[2] * y[1])
FLess(x, y) == x[1] * y[2] < y[1] * x[2]

\* the components dict of prompt_evaluation, and the order of its keys
components ==
  [executive_summary |-> <<"zero_shot", "few_shot", "chain_of_thought">>,
   cash_flow |-> <<"chain_of_thought">>,
   transaction_behaviour |-> <<"chain_of_thought">>]
component_keys == <<"executive_summary", "cash_flow", "transaction_behaviour">>

\* cost_per_input_token and cost_per_output_token, in millionths
cost_per_input_token == 15
cost_per_output_token == 75

\* an output text: its words (the tokens TfidfVectorizer sees) and its length
Text(words, chars) == [words |-> words, chars |-> chars]
EmptyText == Text(<<>>, 0)

\* len(prompt_template.format(transaction_summary=...)): the characters of
\* the template of the chain and of the summary
TemplateChars(approach_name) ==
  IF approach_name = "chain_of_thought" THEN 588 ELSE 392

SummaryChars(summary) ==
  IF summary = InvalidMonth THEN 42
  ELSE IF "error" \in DOMAIN summary THEN 28
  ELSE 20 * Len(summary.lines)

\* estimated_cost, in quarters of a millionth (chars_per_token = 4)
estimated_cost(input_chars, output_chars) ==
  input_chars * cost_per_input_token + output_chars * cost_per_output_token

\* the record prompt_evaluation keeps for one (user, component, approach)
CandidateResult(o, input_chars) ==
  LET output_text == IF o.success THEN o.output ELSE EmptyText
  IN  [success |-> o.success, response_time |-> o.response_time,
       cost |-> estimated_cost(input_chars, output_text.chars),
       output |-> output_text]

\* the keys (segment, component, approach) of segment_results
SegmentKeys(grouping) ==
  UNION {{<<grouping[i].segment, c, components[c][j]>> :
            j \in 1..Len(components[c])} :
         i \in 1..Len(grouping), c \in DOMAIN components}

\* the initial entry of segment_results[segment][component][approach]; the
\* success_rate, avg_response_time and avg_cost fields first hold the sums
ZeroMetric ==
  [success_rate |-> Zero, total_users |-> 0, avg_response_time |-> Zero,
   avg_cost |-> Zero, within_segment_similarity |-> Zero, outputs |-> <<>>]

\* prompt_evaluation is not running
NoEvaluation ==
  /\ epc = "idle"
  /\ pos = [s |-> 1, u |-> 1, c |-> 0, a |-> 0]
  /\ transaction_summary = <<>>
  /\ detailed_results = <<>>
  /\ segment_results = <<>>
  /\ cross_segment_similarity = <<>>
  /\ best_approaches = <<>>

\* the position of the first user at or after segment s, user u; s is past
\* the last segment when there is none
RECURSIVE UserAt(_, _, _)
UserAt(grouping, s, u) ==
  IF s > Len(grouping) THEN [s |-> s, u |-> 1, c |-> 0, a |-> 0]
  ELSE IF u > Len(grouping[s].user_ids) THEN UserAt(grouping, s + 1, 1)
  ELSE [s |-> s, u |-> u, c |-> 0, a |-> 0]

\* prompt_evaluation is called: the result structures are initialised
StartEvaluation ==
  /\ epc = "idle" /\ constructed >= 1
  /\ segment_results' = [k \in SegmentKeys(eval_call.user_ids_by_segment) |-> ZeroMetric]
  /\ detailed_results' = <<>>
  /\ pos' = UserAt(eval_call.user_ids_by_segment, 1, 1)
  /\ epc' = "process"
  /\ UNCHANGED <<cross_segment_similarity, eval_call, chain_outcomes, transaction_summary, best_approaches>>
  /\ UNCHANGED <<dataVars, selVars, txnVars>>

\* the segment and the user prompt_evaluation is at
CurrentSegment == eval_call.user_ids_by_segment[pos.s].segment
CurrentUser == eval_call.user_ids_by_segment[pos.s].user_ids[pos.u]
\* user_key = f"{segment}_{user_id}"
user_key(segment, user_id) == <<segment, user_id>>

\* the start of the pass for one user: the profile is fetched inside the
\* try whose except skips the user
BeginUser ==
  /\ epc = "process" /\ pos.s <= Len(eval_call.user_ids_by_segment) /\ pos.c = 0
  /\ LET fetched == monthly_profile(eval_call.year, eval_call.month, CurrentUser)
     IN  IF fetched.status # "ok"
         THEN /\ pos' = UserAt(eval_call.user_ids_by_segment, pos.s, pos.u + 1)
              /\ UNCHANGED <<transaction_summary, detailed_results>>
         ELSE /\ transaction_summary' = fetched.value
              /\ detailed_results' =
                   Put(detailed_results, user_key(CurrentSegment, CurrentUser), <<>>)
              /\ pos' = [pos EXCEPT !.c = 1, !.a = 1]
  /\ UNCHANGED <<cross_segment_similarity, eval_call, chain_outcomes, epc, segment_results, best_approaches>>
  /\ UNCHANGED <<dataVars, selVars, txnVars>>

\* the entry of segment_results after one candidate of its key
update_aggregates(m, r) ==
  IF r.success
  THEN [m EXCEPT !.total_users = @ + 1,
                 !.success_rate = FAdd(@, One),
                 !.avg_response_time = FAdd(@, Frac(r.response_time, 1)),
                 !.avg_cost = FAdd(@, Frac(r.cost, 1)),
                 !.outputs = IF r.output.chars > 0 THEN Append(@, r.output) ELSE @]
  ELSE [m EXCEPT !.total_users = @ + 1]

\* one pass of the loop over the approaches of a component: the chain is
\* invoked inside its own try and the candidate is recorded
RunChain ==
  /\ epc = "process" /\ pos.s <= Len(eval_call.user_ids_by_segment) /\ pos.c >= 1
  /\ LET component == component_keys[pos.c]
         approach_name == components[component][pos.a]
         key == user_key(CurrentSegment, CurrentUser)
         input_chars == TemplateChars(approach_name) + SummaryChars(transaction_summary)
         of_user == detailed_results[key]
         of_component == IF component \in DOMAIN of_user THEN of_user[component]
                         ELSE <<>>
     IN  \E o \in chain_outcomes[component] :
           LET r == CandidateResult(o, input_chars)
               k == <<CurrentSegment, component, approach_name>>
           IN  /\ detailed_results' =
                    Put(detailed_results, key,
                        Put(of_user, component, Put(of_component, approach_name, r)))
               /\ segment_results' =
                    [segment_results EXCEPT ![k] = update_aggregates(@, r)]
               /\ pos' =
                    IF pos.a < Len(components[component])
                    THEN [pos EXCEPT !.a = @ + 1]
                    ELSE IF pos.c < Len(component_keys)
                    THEN [pos EXCEPT !.c = @ + 1, !.a = 1]
                    ELSE UserAt(eval_call.user_ids_by_segment, pos.s, pos.u + 1)
  /\ UNCHANGED <<cross_segment_similarity, eval_call, chain_outcomes, epc, transaction_summary, best_approaches>>
  /\ UNCHANGED <<dataVars, selVars, txnVars>>

\* cosine_similarity of the TF-IDF rows of two texts whose word lists are
\* equal or share no word; a text without words has a zero row
TextCosine(x, y) ==
  IF x.words = <<>> \/ y.words = <<>> THEN 0
  ELSE IF x.words = y.words THEN 1 ELSE 0

RECURSIVE SumCosine(_, _, _)
\* np.sum(similarity_matrix): the sum over the cells (i, j), j from n on
SumCosine(outputs, i, j) ==
  IF i > Len(outputs) THEN 0
  ELSE IF j > Len(outputs) THEN SumCosine(outputs, i + 1, 1)
  ELSE TextCosine(outputs[i], outputs[j]) + SumCosine(outputs, i, j + 1)

\* the within-segment similarity of more than one output; fit_transform
\* raises on an empty vocabulary and the except stores 0
avg_similarity(outputs) ==
  IF \A i \in 1..Len(outputs) : outputs[i].words = <<>> THEN Zero
  ELSE Frac(SumCosine(outputs, 1, 1) - Len(outputs),
            Len(outputs) * (Len(outputs) - 1))

\* a plausible bug: the sums are divided by total_users
averaged_by_total(m) ==
  LET successful_users == m.success_rate
  IN  IF FLess(Zero, successful_users)
      THEN [m EXCEPT
              !.success_rate = FDiv(successful_users, Frac(m.total_users, 1)),
              !.avg_response_time = FDiv(@, Frac(m.total_users, 1)),
              !.avg_cost = FDiv(@, Frac(m.total_users, 1)),
              !.within_segment_similarity =
                 IF Len(m.outputs) > 1 THEN avg_similarity(m.outputs) ELSE @]
      ELSE [m EXCEPT !.success_rate = Zero, !.avg_response_time = Zero,
                     !.avg_cost = Zero, !.within_segment_similarity = Zero]

\* one entry of segment_results after "Calculate averages and
\* within-segment similarity"
averaged(m) ==
  LET successful_users == m.success_rate
  IN  IF FLess(Zero, successful_users)
      THEN [m EXCEPT
              !.success_rate = FDiv(successful_users, Frac(m.total_users, 1)),
              !.avg_response_time = FDiv(@, successful_users),
              !.avg_cost = FDiv(@, successful_users),
              !.within_segment_similarity =
                 IF Len(m.outputs) > 1 THEN avg_similarity(m.outputs) ELSE @]
      ELSE [m EXCEPT !.success_rate = Zero, !.avg_response_time = Zero,
                     !.avg_cost = Zero, !.within_segment_similarity = Zero]

\* the keys of segment_results, in the order of the dict
segment_order ==
  [i \in 1..Len(eval_call.user_ids_by_segment) |->
     eval_call.user_ids_by_segment[i].segment]

\* outputs_by_segment[segment][component][approach]
outputs_by_segment(segment, component, a) ==
  segment_results[<<segment, component, a>>].outputs

RECURSIVE CrossSum(_, _, _, _)
\* the sum of similarity_matrix[i, j] over the pairs of an output of the
\* first and an output of the second segment
CrossSum(outputs1, outputs2, i, j) ==
  IF i > Len(outputs1) THEN 0
  ELSE IF j > Len(outputs2) THEN CrossSum(outputs1, outputs2, i + 1, 1)
  ELSE TextCosine(outputs1[i], outputs2[j]) + CrossSum(outputs1, outputs2, i, j + 1)

\* the entry of two segments with outputs: the average of the cells of the
\* pairs from different segments; fit_transform raises on an empty
\* vocabulary and the except stores 0
avg_cross_similarity(outputs1, outputs2) ==
  LET all_outputs == outputs1 \o outputs2
  IN  IF \A i \in 1..Len(all_outputs) : all_outputs[i].words = <<>> THEN Zero
      ELSE Frac(CrossSum(outputs1, outputs2, 1, 1), Len(outputs1) * Len(outputs2))

\* cross_segment_similarity[component][approach]: empty when fewer than two
\* segments have outputs, else segment1 -> segment2 -> average for every
\* segment2 after segment1 among the segments with outputs
cross_segment(component, a) ==
  LET segments_with_outputs ==
        SelectSeq(segment_order,
                  LAMBDA g : Len(outputs_by_segment(g, component, a)) > 0)
  IN  IF Len(segments_with_outputs) < 2 THEN <<>>
      ELSE [segment1 \in Range(segments_with_outputs) |->
              LET i == CHOOSE n \in 1..Len(segments_with_outputs) :
                         segments_with_outputs[n] = segment1
              IN  [segment2 \in {segments_with_outputs[n] :
                                   n \in (i + 1)..Len(segments_with_outputs)} |->
                     avg_cross_similarity(outputs_by_segment(segment1, component, a),
                                          outputs_by_segment(segment2, component, a))]]

\* the loops over the users are over: the averages of every entry, then the
\* cross-segment similarity of every (component, approach)
ComputeAverages ==
  /\ epc = "process" /\ pos.s > Len(eval_call.user_ids_by_segment)
  /\ segment_results' = [k \in DOMAIN segment_results |-> averaged(segment_results[k])]
  /\ cross_segment_similarity' =
       [k \in UNION {{<<c, components[c][j]>> : j \in 1..Len(components[c])} :
                     c \in DOMAIN components} |->
          cross_segment(k[1], k[2])]
  /\ epc' = "averaged"
  /\ UNCHANGED <<eval_call, chain_outcomes, pos, transaction_summary,
                 detailed_results, best_approaches>>
  /\ UNCHANGED <<dataVars, selVars, txnVars>>

RECURSIVE FMaxOf(_)
\* max(...) of a non-empty sequence of fractions
FMaxOf(xs) ==
  IF Len(xs) = 1 THEN xs[1]
  ELSE LET m == FMaxOf(Tail(xs)) IN IF FLess(xs[1], m) THEN m ELSE xs[1]

\* the key of max(valid_approaches, key=...), in hundredths
approach_score(m, max_response_time, max_cost) ==
  FAdd(FAdd(FMul(m.success_rate, Frac(40, 1)),
            FMul(FSub(One, FDiv(m.avg_response_time, max_response_time)),
                 Frac(15, 1))),
       FAdd(FMul(FSub(One, m.within_segment_similarity), Frac(35, 1)),
            FMul(FSub(One, FDiv(m.avg_cost, max_cost)), Frac(10, 1))))

RECURSIVE max_by_score_last(_, _)
\* a plausible bug: the last of the approaches with the largest score
max_by_score_last(names, score) ==
  IF Len(names) = 1 THEN names[1]
  ELSE LET best == max_by_score_last(SubSeq(names, 1, Len(names) - 1), score)
           last == names[Len(names)]
       IN  IF FLess(score[last], score[best]) THEN best ELSE last

RECURSIVE max_by_score(_, _)
\* max(names, key=score): the first of the approaches with the largest score
max_by_score(names, score) ==
  IF Len(names) = 1 THEN names[1]
  ELSE LET best == max_by_score(SubSeq(names, 1, Len(names) - 1), score)
           last == names[Len(names)]
       IN  IF FLess(score[best], score[last]) THEN last ELSE best

\* best_approaches[segment][component]
best_approach(results_of, approaches) ==
  LET valid_approaches ==
        SelectSeq(approaches, LAMBDA a : FLess(Zero, results_of[a].success_rate))
  IN  IF valid_approaches = <<>> THEN NoApproach
      ELSE IF Len(valid_approaches) = 1 THEN valid_approaches[1]
      ELSE LET times == [i \in 1..Len(valid_approaches) |->
                           results_of[valid_approaches[i]].avg_response_time]
               costs == [i \in 1..Len(valid_approaches) |->
                           results_of[valid_approaches[i]].avg_cost]
               max_response_time == IF FMaxOf(times) = Zero THEN One ELSE FMaxOf(times)
               max_cost == IF FMaxOf(costs) = Zero THEN One ELSE FMaxOf(costs)
               score == [a \in Range(valid_approaches) |->
                           approach_score(results_of[a], max_response_time, max_cost)]
           IN  max_by_score(valid_approaches, score)

\* "Determine best approach for each segment and component", and the return
DetermineBestApproaches ==
  /\ epc = "averaged"
  /\ best_approaches' =
       [k \in {<<eval_call.user_ids_by_segment[i].segment, c>> :
                 i \in 1..Len(eval_call.user_ids_by_segment), c \in DOMAIN components} |->
          best_approach([a \in Range(components[k[2]]) |->
                           segment_results[<<k[1], k[2], a>>]],
                        components[k[2]])]
  /\ epc' = "done"
  /\ UNCHANGED <<cross_segment_similarity, eval_call, chain_outcomes, pos, transaction_summary,
                 detailed_results, segment_results>>
  /\ UNCHANGED <<dataVars, selVars, txnVars>>

\* ------------------------------------------------- analytics engine actions
\* parameter values the queries are called with
MinTransactions == 1..2
MaxUsers == 1..2
\* (min_spend, min_cash_in)
Thresholds == {<<0, 0>>, <<100, 0>>, <<100, 50>>}
\* (min_spend, min_cash_in) of the segment queries
SegmentThresholds == {<<0, 0>>, <<100, 0>>}
\* the (year, month) the DataFetcher queries are called with: March 2025, and
\* a month that does not exist
FetcherPeriods == {<<2025, 3>>, <<2025, 13>>}

\* source files for the store and profile queries: every field varies but the segment
ProfileFiles ==
  SeqsUpTo({r \in RawRows : r.segment_tag = "A" /\ r.timestamp # Ts(2025, 3, 20, 8)},
           MaxRows)

\* source files for the active-user queries: user and type vary, and the
\* timestamp lies inside or outside the queried period
ActiveFiles ==
  SeqsUpTo({r \in RawRows : /\ r.transaction_method = "qr" /\ r.amount = 50
                            /\ r.segment_tag = "A"
                            /\ r.timestamp # Ts(2025, 3, 20, 8)},
           MaxFetcherRows)

\* source files for the segment queries: segment varies for both users, the
\* timestamp for u1
SegmentFiles ==
  SeqsUpTo({r \in RawRows : /\ r.transaction_method = "qr" /\ r.amount = 50
                            /\ r.transaction_type = "SPEND"
                            /\ r.user_id = "u2" => r.timestamp = Ts(2025, 3, 20, 8)},
           MaxFetcherRows)

\* the database is empty and no DataFetcher exists yet
Fresh ==
  /\ store = <<>>
  /\ user_ids = {}
  /\ constructed = 0
  /\ op = [name |-> "none"]
  /\ ret = Returned(<<>>)

\* no database connection is open
NoConnection ==
  /\ writer = [pc |-> "idle"]
  /\ reader = [pc |-> "idle"]

\* prompt_evaluation was not called
NoCall ==
  /\ eval_call = [year |-> 2025, month |-> 3, user_ids_by_segment |-> <<>>]
  /\ chain_outcomes = <<>>
  /\ NoEvaluation

Init == data \in ProfileFiles /\ Fresh /\ NoSelection /\ NoCall /\ NoConnection

InitActive == data \in ActiveFiles /\ Fresh /\ NoSelection /\ NoCall /\ NoConnection

InitSegments == data \in SegmentFiles /\ Fresh /\ NoSelection /\ NoCall /\ NoConnection

\* the selector runs on its own; no source file is involved
InitSelector == data = <<>> /\ Fresh /\ NoSelection /\ NoCall /\ NoConnection

\* source files of the evaluator runs: no row, or one row of user u1
EvaluatorFiles ==
  {<<>>,
   <<[user_id |-> "u1", timestamp |-> Ts(2025, 3, 10, 8), transaction_type |-> "SPEND",
      transaction_method |-> "qr", amount |-> 50, segment_tag |-> "A"]>>}

\* the segment -> users groupings prompt_evaluation is called with, in dict order
Groupings ==
  {<<[segment |-> "A", user_ids |-> <<"u1", "u2">>]>>,
   <<[segment |-> "A", user_ids |-> <<"u1">>],
     [segment |-> "B", user_ids |-> <<"u2">>]>>}

\* the months prompt_evaluation is called with
EvaluatorMonths == {3, 13}

\* what an invocation of a chain can do: raise after a while, or return a
\* text after a while
Failure == [success |-> FALSE, response_time |-> 3, output |-> EmptyText]
Success(response_time, output) ==
  [success |-> TRUE, response_time |-> response_time, output |-> output]
\* "save regularly" and "budget groceries and transit"
Save == Text(<<"save", "regularly">>, 14)
Budget == Text(<<"budget", "groceries", "and", "transit">>, 28)
EvaluatorOutcomes ==
  [executive_summary |->
     {Failure, Success(1, Save), Success(2, Budget)},
   cash_flow |-> {Failure, Success(1, Save)},
   transaction_behaviour |-> {Failure, Success(1, Save)}]

\* three users in two segments, none of them in the file; every chain
\* answers, and an answer can be "N/A, N/A, N/A.", a text in which
\* TfidfVectorizer finds no word of two letters
ThreeUsers ==
  <<[segment |-> "A", user_ids |-> <<"u1", "u2">>],
    [segment |-> "B", user_ids |-> <<"u3">>]>>
NotAvailable == Text(<<>>, 14)
\* three segments of one user each
ThreeSegments ==
  <<[segment |-> "A", user_ids |-> <<"u1">>],
    [segment |-> "B", user_ids |-> <<"u2">>],
    [segment |-> "C", user_ids |-> <<"u3">>]>>
AnsweringGroupings == {ThreeUsers, ThreeSegments}
AnsweringOutcomes ==
  [executive_summary |-> {Success(1, Save), Success(2, Budget)},
   cash_flow |-> {Success(1, Save), Success(1, NotAvailable)},
   transaction_behaviour |-> {Success(1, Save)}]

\* a DataFetcher was constructed over the file and an empty database, and
\* prompt_evaluation is about to be called
InitEvaluator ==
  /\ data \in EvaluatorFiles
  /\ store = insert_transactions(<<>>, data)
  /\ user_ids = {data[i].user_id : i \in 1..Len(data)}
  /\ constructed = 1
  /\ op = [name |-> "DataFetcher"]
  /\ ret = Returned(<<>>)
  /\ NoSelection
  /\ NoConnection
  /\ \/ /\ eval_call \in [year : {2025}, month : EvaluatorMonths,
                          user_ids_by_segment : Groupings]
        \* an invalid month changes the profile text of a known user only
        /\ eval_call.month \notin 1..12 => data # <<>>
        /\ chain_outcomes = EvaluatorOutcomes
     \/ /\ eval_call \in [year : {2025}, month : {3},
                          user_ids_by_segment : AnsweringGroupings]
        /\ data = <<>>
        /\ chain_outcomes = AnsweringOutcomes
  /\ NoEvaluation

\* source files for the runs of all the DataFetcher queries: user and type
\* vary, a qr transaction is of 100 and a wallet transaction of 50
QueryFiles ==
  SeqsUpTo({r \in RawRows : /\ r.timestamp = Ts(2025, 3, 10, 8)
                            /\ r.segment_tag = "A"
                            /\ r.transaction_method = "qr" <=> r.amount = 100},
           MaxRows)

InitQueries == data \in QueryFiles /\ Fresh /\ NoSelection /\ NoCall /\ NoConnection

\* the records of the batches inserted directly: two complete records, and
\* the first of them without one of its required keys
CompleteRecords ==
  {[user_id |-> u, timestamp |-> Ts(2025, 3, 10, 8), transaction_type |-> "SPEND",
    transaction_method |-> "qr", amount |-> 50, segment_tag |-> "A"] : u \in UserIds}
Without(t, key) == [k \in DOMAIN t \ {key} |-> t[k]]
IncompleteRecords ==
  {Without(CHOOSE t \in CompleteRecords : t.user_id = "u1", key) : key \in RequiredFields}
Batches == SeqsUpTo(CompleteRecords \cup IncompleteRecords, MaxBatch)

\* source files and frames whose amounts are numbers, empty or NaN cells,
\* None, and texts that read as a number or do not
AmountObjects == {NoneValue, NaNValue, Str(""), Str("abc"), Str("50")}
AmountRows ==
  {[user_id |-> "u1", timestamp |-> Ts(2025, 3, 10, 8), transaction_type |-> "SPEND",
    transaction_method |-> "qr", amount |-> 100, segment_tag |-> "A"]}
  \cup {[user_id |-> "u1", timestamp |-> Ts(2025, 3, 10, 8),
         transaction_type |-> "SPEND", transaction_method |-> "qr",
         amount_object |-> v, segment_tag |-> "A"] : v \in AmountObjects}
AmountFiles == SeqsUpTo(AmountRows, MaxRows)

InitAmounts == data \in AmountFiles /\ Fresh /\ NoSelection /\ NoCall /\ NoConnection

\* an empty database on which insert_transactions is called directly
InitStore == data = <<>> /\ Fresh /\ NoSelection /\ NoCall /\ NoConnection

\* the caller has taken the last result: no call is in progress
Idle == op.name \in {"none", "DataFetcher"}

\* DataFetcher.__init__ over the same source file and the same database:
\* every row of the file becomes a transaction dict and the batch is inserted
Construct ==
  /\ constructed < MaxConstruct
  /\ store' = insert_transactions(store, transactions_of(data))
  /\ user_ids' = {data[i].user_id : i \in 1..Len(data)}
  /\ constructed' = constructed + 1
  /\ op' = [name |-> "DataFetcher"]
  /\ ret' = Returned(<<>>)
  /\ UNCHANGED data
  /\ UNCHANGED <<selVars, evalVars, txnVars>>

\* TransactionDB.get_monthly_profile(user_id, year, month)
GetMonthlyProfile ==
  /\ constructed >= 1 /\ Idle
  /\ \E u \in UserIds, p \in Periods :
       /\ op' = [name |-> "get_monthly_profile", user_id |-> u,
                 year |-> p[1], month |-> p[2]]
       /\ ret' = Returned(get_monthly_profile(u, p[1], p[2]))
  /\ UNCHANGED <<data, store, user_ids, constructed>>
  /\ UNCHANGED <<selVars, evalVars, txnVars>>

\* DataFetcher.active_users(year, month, min_transactions, max_users, min_spend, min_cash_in)
ActiveUsers ==
  /\ constructed >= 1 /\ Idle
  /\ \E p \in FetcherPeriods, mt \in MinTransactions, mu \in MaxUsers, th \in Thresholds :
       /\ op' = [name |-> "active_users", year |-> p[1], month |-> p[2],
                 min_transactions |-> mt, max_users |-> Some(mu),
                 min_spend |-> th[1], min_cash_in |-> th[2]]
       /\ ret' = active_users(p[1], p[2], mt, Some(mu), th[1], th[2])
  /\ UNCHANGED <<data, store, user_ids, constructed>>
  /\ UNCHANGED <<selVars, evalVars, txnVars>>

\* DataFetcher.get_segment_users(year, month, min_transactions, max_users, min_spend, min_cash_in)
GetSegmentUsers ==
  /\ constructed >= 1 /\ Idle
  /\ \E p \in FetcherPeriods, mt \in MinTransactions, mu \in MaxUsers,
        th \in SegmentThresholds :
       /\ op' = [name |-> "get_segment_users", year |-> p[1], month |-> p[2],
                 min_transactions |-> mt, max_users |-> mu,
                 min_spend |-> th[1], min_cash_in |-> th[2]]
       /\ ret' = get_segment_users(p[1], p[2], mt, mu, th[1], th[2])
  /\ UNCHANGED <<data, store, user_ids, constructed>>
  /\ UNCHANGED <<selVars, evalVars, txnVars>>

\* DataFetcher.monthly_profile(year, month, user_id)
MonthlyProfile ==
  /\ constructed >= 1 /\ Idle
  /\ \E u \in UserIds, p \in FetcherPeriods :
       /\ op' = [name |-> "monthly_profile", user_id |-> u,
                 year |-> p[1], month |-> p[2]]
       /\ ret' = monthly_profile(p[1], p[2], u)
  /\ UNCHANGED <<data, store, user_ids, constructed>>
  /\ UNCHANGED <<selVars, evalVars, txnVars>>

\* the caller takes the result of the query and goes on
Consume ==
  /\ ~Idle
  /\ op' = [name |-> "none"]
  /\ ret' = Returned(<<>>)
  /\ UNCHANGED <<data, store, user_ids, constructed>>
  /\ UNCHANGED <<selVars, evalVars, txnVars>>

\* TransactionDB.insert_transactions(transactions), called on the database
InsertTransactions ==
  /\ op.name = "none" /\ Len(store) < MaxStoreRows
  /\ \E batch \in Batches :
       LET outcome == insert_outcome(store, batch)
       IN  /\ store' = outcome.table
           /\ op' = [name |-> "insert_transactions", transactions |-> batch]
           /\ ret' = IF outcome.status = "ok" THEN Returned(<<>>)
                     ELSE Raised(outcome.status)
  /\ UNCHANGED <<data, user_ids, constructed>>
  /\ UNCHANGED <<selVars, evalVars, txnVars>>

\* TransactionDB.get_active_users(start_date, end_date, min_transactions),
\* called with the first and the last datetime of a month
GetActiveUsers ==
  /\ constructed >= 1 /\ Idle
  /\ \E p \in Periods, mt \in MinTransactions :
       /\ op' = [name |-> "get_active_users", year |-> p[1], month |-> p[2],
                 min_transactions |-> mt]
       /\ ret' = Returned(get_active_users(month_start_date(p[1], p[2]),
                                           month_end_date(p[1], p[2]), mt))
  /\ UNCHANGED <<data, store, user_ids, constructed>>
  /\ UNCHANGED <<selVars, evalVars, txnVars>>

\* TransactionDB.get_user_segment_stats()
GetUserSegmentStats ==
  /\ constructed >= 1 /\ Idle
  /\ op' = [name |-> "get_user_segment_stats"]
  /\ ret' = Returned(get_user_segment_stats)
  /\ UNCHANGED <<data, store, user_ids, constructed>>
  /\ UNCHANGED <<selVars, evalVars, txnVars>>

\* source files of the runs in which every store operation is called
OperationFiles ==
  SeqsUpTo({r \in RawRows : /\ r.user_id = "u1" /\ r.transaction_type = "SPEND"
                            /\ r.transaction_method = "qr" /\ r.amount = 50
                            /\ r.timestamp # Ts(2025, 3, 20, 8)},
           MaxRows)

InitOperations ==
  data \in OperationFiles /\ Fresh /\ NoSelection /\ NoCall /\ NoConnection

\* ---------------------------------------------- connections side by side
\* Each call opens its own connection (_get_connection).  insert_transactions
\* writes its rows in the one transaction that executemany opens and that
\* conn.commit() ends; the three SELECTs of get_monthly_profile run outside
\* any transaction, each on the table as committed when it runs.

\* the records of the batches inserted while profiles are read
ConnectionRecords ==
  {[user_id |-> "u1", timestamp |-> Ts(2025, 3, 10, 8), transaction_type |-> "SPEND",
    transaction_method |-> "qr", amount |-> 50, segment_tag |-> "A"],
   [user_id |-> "u1", timestamp |-> Ts(2025, 3, 20, 8), transaction_type |-> "SPEND",
    transaction_method |-> "wallet", amount |-> 100, segment_tag |-> "B"]}
ConnectionBatches == SeqsUpTo(ConnectionRecords, MaxBatch) \ {<<>>}

\* a database with no row, on which calls run side by side
InitConnections == data = <<>> /\ Fresh /\ NoSelection /\ NoCall /\ NoConnection

\* insert_transactions(transactions): the connection is opened and
\* processed_data is built; transaction holds the rows inserted and not yet
\* committed
BeginInsert ==
  /\ writer.pc = "idle"
  /\ \E batch \in ConnectionBatches :
       /\ Len(store) + Len(batch) <= MaxStoreRows
       /\ writer' = [pc |-> "executemany",
                     processed_data |-> insert_transactions(<<>>, batch),
                     pending |-> insert_transactions(<<>>, batch),
                     transaction |-> <<>>]
  /\ UNCHANGED <<dataVars, reader>>
  /\ UNCHANGED <<selVars, evalVars>>

\* a plausible bug: the connection is in autocommit mode, every INSERT is
\* committed as it is executed
ExecuteRow_autocommit ==
  /\ writer.pc = "executemany"
  /\ writer.pending # <<>>
  /\ writer' = [writer EXCEPT !.pending = Tail(@)]
  /\ store' = Append(store, Head(writer.pending))
  /\ UNCHANGED <<data, user_ids, constructed, op, ret, reader>>
  /\ UNCHANGED <<selVars, evalVars>>

\* cursor.executemany: the INSERT of the next row, inside the transaction
ExecuteRow ==
  /\ writer.pc = "executemany"
  /\ writer.pending # <<>>
  /\ writer' = [writer EXCEPT !.pending = Tail(@),
                              !.transaction = Append(@, Head(writer.pending))]
  /\ UNCHANGED <<dataVars, reader>>
  /\ UNCHANGED <<selVars, evalVars>>

\* conn.commit(): the rows of the transaction become part of the table, and
\* the connection is closed
Commit ==
  /\ writer.pc = "executemany"
  /\ writer.pending = <<>>
  /\ store' = store \o writer.transaction
  /\ writer' = [pc |-> "idle"]
  /\ UNCHANGED <<data, user_ids, constructed, op, ret, reader>>
  /\ UNCHANGED <<selVars, evalVars>>

\* the rows of the batch the writer has inserted so far
rows_written ==
  IF writer.pc = "idle" THEN <<>>
  ELSE SubSeq(writer.processed_data, 1,
              Len(writer.processed_data) - Len(writer.pending))

\* get_monthly_profile(user_id, year, month): the connection is opened
BeginProfile ==
  /\ reader.pc = "idle" /\ op.name = "none"
  /\ \E u \in UserIds, p \in Periods :
       reader' = [pc |-> "stats", user_id |-> u, year |-> p[1], month |-> p[2]]
  /\ UNCHANGED <<dataVars, writer>>
  /\ UNCHANGED <<selVars, evalVars>>

\* the first SELECT, the basic stats, on the committed table; during notes
\* how many rows the writer had inserted when it ran
SelectStats ==
  /\ reader.pc = "stats"
  /\ LET profile == get_monthly_profile(reader.user_id, reader.year, reader.month)
     IN  reader' = [pc |-> "methods", user_id |-> reader.user_id,
                    year |-> reader.year, month |-> reader.month,
                    stats |-> [total_spend |-> profile.total_spend,
                               spend_count |-> profile.spend_count,
                               total_cash_in |-> profile.total_cash_in,
                               cash_in_count |-> profile.cash_in_count],
                    during |-> Len(rows_written)]
  /\ UNCHANGED <<dataVars, writer>>
  /\ UNCHANGED <<selVars, evalVars>>

\* the second SELECT, GROUP BY transaction_method, transaction_type
SelectMethods ==
  /\ reader.pc = "methods"
  /\ LET profile == get_monthly_profile(reader.user_id, reader.year, reader.month)
     IN  reader' = [pc |-> "segments", user_id |-> reader.user_id,
                    year |-> reader.year, month |-> reader.month,
                    stats |-> reader.stats, during |-> reader.during,
                    methods_summary |-> profile.methods_summary]
  /\ UNCHANGED <<dataVars, writer>>
  /\ UNCHANGED <<selVars, evalVars>>

\* the third SELECT, DISTINCT segment_tag, and the return of the dict
SelectSegments ==
  /\ reader.pc = "segments"
  /\ LET profile == get_monthly_profile(reader.user_id, reader.year, reader.month)
     IN  /\ op' = [name |-> "get_monthly_profile", user_id |-> reader.user_id,
                   year |-> reader.year, month |-> reader.month]
         /\ ret' = Returned([total_spend |-> reader.stats.total_spend,
                             spend_count |-> reader.stats.spend_count,
                             total_cash_in |-> reader.stats.total_cash_in,
                             cash_in_count |-> reader.stats.cash_in_count,
                             methods_summary |-> reader.methods_summary,
                             segments |-> profile.segments])
  /\ reader' = [pc |-> "idle"]
  /\ UNCHANGED <<data, store, user_ids, constructed, writer>>
  /\ UNCHANGED <<selVars, evalVars>>

Next == Construct \/ GetMonthlyProfile \/ Consume

Spec == Init /\ [][Next]_vars

\* ingestion of files with amounts of every kind, and profile queries
SpecAmounts == InitAmounts /\ [][Next]_vars

\* every operation on the store: ingestion (insert_transactions) and the queries
NextOperations ==
  \/ Construct
  \/ GetMonthlyProfile \/ GetActiveUsers \/ GetUserSegmentStats
  \/ ActiveUsers \/ GetSegmentUsers \/ MonthlyProfile \/ Consume

SpecOperations == InitOperations /\ [][NextOperations]_vars

NextActive == Construct \/ ActiveUsers \/ Consume

SpecActive == InitActive /\ [][NextActive]_vars

NextSegments == Construct \/ GetSegmentUsers \/ Consume

SpecSegments == InitSegments /\ [][NextSegments]_vars

NextSelector ==
  \/ StartGenerateReport \/ StartMain \/ BestApproachStep \/ MainStep
  \/ Select \/ NextComponent \/ GenerateComponent \/ ReturnReport

SpecSelector == InitSelector /\ [][NextSelector]_vars

NextQueries ==
  Construct \/ MonthlyProfile \/ ActiveUsers \/ GetSegmentUsers \/ Consume

SpecQueries == InitQueries /\ [][NextQueries]_vars

NextStore == InsertTransactions \/ Consume

SpecStore == InitStore /\ [][NextStore]_vars

NextConnections ==
  \/ BeginInsert \/ ExecuteRow \/ Commit
  \/ BeginProfile \/ SelectStats \/ SelectMethods \/ SelectSegments \/ Consume

SpecConnections == InitConnections /\ [][NextConnections]_vars

NextEvaluator ==
  \/ StartEvaluation \/ BeginUser \/ RunChain \/ ComputeAverages
  \/ DetermineBestApproaches

SpecEvaluator == InitEvaluator /\ [][NextEvaluator]_vars

\* ------------------------------------------------------------------ claims
\* the rows of table for (user_id, year, month), by the calendar fields of the timestamp
CalendarRows(table, user_id, year, month) ==
  SelectSeq(table, LAMBDA r :
     r.user_id = user_id /\ r.timestamp.year = year /\ r.timestamp.month = month)

\* the table after the source file was inserted once into an empty database
SingleInsert == [i \in 1..Len(data) |-> ProcessedRow(data[i])]

Occurrences(s, x) == Len(SelectSeq(s, LAMBDA e : e = x))

IsProfileCall == op.name = "get_monthly_profile" /\ ret.status = "ok"

\* C1: insert_transactions never deduplicates. After the same file has been
\* inserted k times (k DataFetcher constructions over the same file and
\* database) the store holds k copies of every row, and every profile's
\* total_spend, spend_count, total_cash_in and cash_in_count are k times the
\* values after a single insert.
C1_InsertNeverDeduplicates ==
  /\ Len(store) = constructed * Len(data)
  /\ \A r \in Range(SingleInsert) :
        Occurrences(store, r) = constructed * Occurrences(SingleInsert, r)
  /\ IsProfileCall =>
       LET once == CalendarRows(SingleInsert, op.user_id, op.year, op.month)
       IN  /\ ret.value.total_spend = constructed * SumAmounts(OfType(once, "SPEND"))
           /\ ret.value.spend_count = constructed * Len(OfType(once, "SPEND"))
           /\ ret.value.total_cash_in = constructed * SumAmounts(OfType(once, "CASH-IN"))
           /\ ret.value.cash_in_count = constructed * Len(OfType(once, "CASH-IN"))

\* C1 witness: the file was inserted twice and a profile with spend and cash-in was read
C1_Witness ==
  /\ constructed = 2
  /\ IsProfileCall
  /\ ret.value.spend_count >= 2
  /\ ret.value.total_cash_in > 0

\* the rows of table whose timestamp lies in [month_start, month_end], the
\* period bounds the engine itself uses
PeriodRows(table, user_id, year, month) ==
  SelectSeq(table, LAMBDA r :
     /\ r.user_id = user_id
     /\ TsKey(r.timestamp) >= TsKey(month_start_date(year, month))
     /\ TsKey(r.timestamp) <= TsKey(month_end_date(year, month)))

\* C2 (P1, conservation): the profile's total_spend is the sum of the amounts
\* of the user's SPEND transactions whose timestamp lies within
\* [month_start, month_end], and total_cash_in likewise for CASH-IN.
C2_Conservation ==
  IsProfileCall =>
    LET within == PeriodRows(store, op.user_id, op.year, op.month)
    IN  /\ ret.value.total_spend = SumAmounts(OfType(within, "SPEND"))
        /\ ret.value.total_cash_in = SumAmounts(OfType(within, "CASH-IN"))

RECURSIVE SumTotalAmount(_)
SumTotalAmount(ms) ==
  IF ms = <<>> THEN 0 ELSE Head(ms).total_amount + SumTotalAmount(Tail(ms))

RECURSIVE SumCount(_)
SumCount(ms) == IF ms = <<>> THEN 0 ELSE Head(ms).count + SumCount(Tail(ms))

EntriesOfType(ms, type) == SelectSeq(ms, LAMBDA e : e.type = type)

\* C3: in every profile the SPEND entries of methods_summary add up to
\* total_spend and their counts to spend_count, the CASH-IN entries add up to
\* total_cash_in and cash_in_count, and no (method, type) pair occurs twice.
C3_MethodsSummaryConsistent ==
  IsProfileCall =>
    LET ms == ret.value.methods_summary
    IN  /\ SumTotalAmount(EntriesOfType(ms, "SPEND")) = ret.value.total_spend
        /\ SumCount(EntriesOfType(ms, "SPEND")) = ret.value.spend_count
        /\ SumTotalAmount(EntriesOfType(ms, "CASH-IN")) = ret.value.total_cash_in
        /\ SumCount(EntriesOfType(ms, "CASH-IN")) = ret.value.cash_in_count
        /\ \A i, j \in 1..Len(ms) :
              (ms[i].method = ms[j].method /\ ms[i].type = ms[j].type) => i = j

\* C3 witness: a profile with a SPEND and a CASH-IN entry for one method, one
\* of them grouping several rows
C3_Witness ==
  /\ IsProfileCall
  /\ \E i, j \in 1..Len(ret.value.methods_summary) :
        /\ ret.value.methods_summary[i].method = ret.value.methods_summary[j].method
        /\ ret.value.methods_summary[i].type = "SPEND"
        /\ ret.value.methods_summary[j].type = "CASH-IN"
        /\ ret.value.methods_summary[i].count >= 2

IsActiveCall == op.name = "active_users" /\ ret.status = "ok"

\* C4: every user returned by active_users has, in the queried month, at
\* least min_transactions transactions, a total SPEND amount >= min_spend and
\* a total CASH-IN amount >= min_cash_in, for all parameter values (also
\* min_spend = min_cash_in = 0), and the result has at most max_users entries.
C4_ActiveUsersMeetThresholds ==
  IsActiveCall =>
    /\ \A i \in 1..Len(ret.value) :
          LET stored == CalendarRows(store, ret.value[i], op.year, op.month)
          IN  /\ Len(CalendarRows(data, ret.value[i], op.year, op.month))
                   >= op.min_transactions
              /\ SumAmounts(OfType(stored, "SPEND")) >= op.min_spend
              /\ SumAmounts(OfType(stored, "CASH-IN")) >= op.min_cash_in
    /\ Len(ret.value) <= op.max_users[1]

\* C4 witness: both thresholds are positive, a user passed them and another
\* user with enough transactions did not
C4_Witness ==
  /\ IsActiveCall
  /\ op.min_spend > 0 /\ op.min_cash_in > 0
  /\ Len(ret.value) >= 1
  /\ \E u \in UserIds :
        /\ u \notin Range(ret.value)
        /\ Len(PeriodRows(data, u, op.year, op.month)) >= op.min_transactions

\* the users of the period that meet the three thresholds, as [user_id, count]
\* in retrieval order
Qualifying(year, month, min_transactions, min_spend, min_cash_in) ==
  SelectSeq(monthly_transactions_by_user(year, month), LAMBDA c :
     /\ c.count >= min_transactions
     /\ monthly_spend(year, month, c.user_id) >= min_spend
     /\ monthly_cash_in(year, month, c.user_id) >= min_cash_in)

RECURSIVE StableSortDesc(_)
\* s sorted by count, largest first, equal counts in their order in s
StableSortDesc(s) ==
  IF s = <<>> THEN <<>>
  ELSE LET init == StableSortDesc(SubSeq(s, 1, Len(s) - 1))
           x == s[Len(s)]
       IN  SelectSeq(init, LAMBDA c : c.count >= x.count) \o <<x>>
             \o SelectSeq(init, LAMBDA c : c.count < x.count)

\* C5: the sequence returned by active_users is ordered by transaction_count
\* non-increasing, equal counts in retrieval order (stable sort), and it is
\* truncated to max_users after that sort.
C5_SortedByCountThenTruncated ==
  IsActiveCall =>
    LET sorted == StableSortDesc(Qualifying(op.year, op.month, op.min_transactions,
                                            op.min_spend, op.min_cash_in))
    IN  ret.value = Slice([i \in 1..Len(sorted) |-> sorted[i].user_id], op.max_users)

\* C6 (P3, monotonicity): with the store and the other parameters fixed,
\* the users returned for min_transactions = m2 are among those returned for
\* every m1 <= m2, also when the result is truncated to max_users.
C6_RaisingMinTransactionsShrinks ==
  IsActiveCall =>
    \A m1 \in MinTransactions :
       m1 <= op.min_transactions =>
         Range(ret.value) \subseteq
           Range(active_users(op.year, op.month, m1, op.max_users,
                              op.min_spend, op.min_cash_in).value)

IsSegmentCall == op.name = "get_segment_users" /\ ret.status = "ok"

\* the segment tags of the user's transactions that hold the maximum timestamp
\* within the period
LatestTags(user_id, year, month) ==
  LET rows == PeriodRows(data, user_id, year, month)
  IN  {rows[i].segment_tag : i \in
         {k \in 1..Len(rows) :
            \A j \in 1..Len(rows) :
               TsKey(rows[k].timestamp) >= TsKey(rows[j].timestamp)}}

\* C7: get_segment_users assigns every active user of the period to exactly
\* one segment, the segment tag of the user's transaction with the maximum
\* timestamp within the period; no user_id is in the lists of two segments
\* and none is twice in one list.
C7_OneSegmentPerActiveUser ==
  IsSegmentCall =>
    LET lookup == ret.value.lookup
        groups == ret.value.groups
        active == Qualifying(op.year, op.month, op.min_transactions,
                             op.min_spend, op.min_cash_in)
    IN  /\ {lookup[i].user_id : i \in 1..Len(lookup)}
             = {active[i].user_id : i \in 1..Len(active)}
        /\ \A i, j \in 1..Len(lookup) :
              lookup[i].user_id = lookup[j].user_id => i = j
        /\ \A i \in 1..Len(lookup) :
              lookup[i].segment \in LatestTags(lookup[i].user_id, op.year, op.month)
        /\ \A s \in DOMAIN groups :
              /\ \A i, j \in 1..Len(groups[s]) :
                    groups[s][i] = groups[s][j] => i = j
              /\ \A i \in 1..Len(groups[s]) :
                    \E k \in 1..Len(lookup) :
                       lookup[k].user_id = groups[s][i] /\ lookup[k].segment = s
              /\ \A t \in DOMAIN groups :
                    s # t => Range(groups[s]) \cap Range(groups[t]) = {}

\* C7 witness: a returned user whose transactions of the period carry both
\* segment tags at different timestamps
C7_Witness ==
  /\ IsSegmentCall
  /\ \E s \in DOMAIN ret.value.groups :
        \E i \in 1..Len(ret.value.groups[s]) :
           LET rows == PeriodRows(data, ret.value.groups[s][i], op.year, op.month)
           IN  \E a, b \in 1..Len(rows) :
                  /\ rows[a].segment_tag # rows[b].segment_tag
                  /\ rows[a].timestamp # rows[b].timestamp

\* the users the look-up assigns to segment s, in the order they were assigned
Assigned(lookup, s) ==
  LET mine == SelectSeq(lookup, LAMBDA e : e.segment = s)
  IN  [i \in 1..Len(mine) |-> mine[i].user_id]

\* C8: in the mapping returned by get_segment_users(max_users = N) every list
\* has exactly N members, all active users; a segment is present if and only
\* if at least N active users were assigned to it, and its list is a prefix
\* of the users assigned to it.
C8_SegmentsOfExactlyMaxUsers ==
  IsSegmentCall =>
    LET lookup == ret.value.lookup
        groups == ret.value.groups
    IN  /\ DOMAIN groups \subseteq Segments
        /\ \A s \in Segments :
              /\ s \in DOMAIN groups <=> Len(Assigned(lookup, s)) >= op.max_users
              /\ s \in DOMAIN groups =>
                   /\ Len(groups[s]) = op.max_users
                   /\ groups[s] = SubSeq(Assigned(lookup, s), 1, op.max_users)
                   /\ \A i \in 1..Len(groups[s]) :
                         Len(PeriodRows(data, groups[s][i], op.year, op.month))
                           >= op.min_transactions

\* C8 witness: with max_users = 2 a segment with exactly two assigned users is
\* returned while the other segment, with fewer, is not
C8_Witness ==
  /\ IsSegmentCall
  /\ op.max_users = 2
  /\ \E s \in DOMAIN ret.value.groups : Len(Assigned(ret.value.lookup, s)) = 2
  /\ DOMAIN ret.value.groups # Segments

\* the selector has just returned the approach of the current component
Selected == pc = "selected"

\* the candidates of the current component that were generated and are Safe
SafeCandidates ==
  {i \in 1..Len(results) : results[i].status = "ok" /\ results[i].flag = "Safe"}

\* the generated candidates of the approach the selector returned
ChosenCandidates ==
  {i \in 1..Len(results) :
     /\ results[i].status = "ok"
     /\ results[i].approach = approach[Components[ci]]}

\* C9 (P4, selection validity): the per-user selector never returns an
\* approach whose candidate had ethical_flag != Safe unless every candidate
\* was unsafe or failed, and in that case it returns the fallback
\* chain_of_thought.
C9_SelectionValidity ==
  Selected =>
    IF SafeCandidates = {}
    THEN approach[Components[ci]] = "chain_of_thought"
    ELSE \A i \in ChosenCandidates : results[i].flag = "Safe"

\* C10: every scoring result, in the per-user selection that checks the
\* ethical flag and in the evaluation record of the report, has
\* similarity_score = -1.0 whenever its ethical_flag is not Safe, and an
\* unsafe candidate never wins a comparison against a Safe candidate.
C10_UnsafeScoresMinusOne ==
  /\ caller = "generate_report" =>
       \A i \in 1..Len(results) :
          (results[i].status = "ok" /\ results[i].flag # "Safe")
            => results[i].similarity = Penalty
  /\ \A c \in DOMAIN evaluation :
        evaluation[c].ethical_flag # "Safe" => evaluation[c].similarity_score = Penalty
  /\ Selected =>
       ((\E i \in ChosenCandidates : results[i].flag # "Safe") => SafeCandidates = {})

\* C11 (Scenario C): wherever the per-user selector scores candidates, in
\* main() and in _best_approach, a candidate whose output text is empty has
\* similarity -1.0 whatever cosine the embedding collaborator would give.
C11_EmptyOutputScoresMinusOne ==
  \A i \in 1..Len(results) :
     (results[i].status = "ok" /\ results[i].empty) => results[i].similarity = Penalty

\* the generation (or scoring) call of every candidate of the component raised
AllCallsFailed == \A i \in 1..Len(results) : results[i].status = "fail"

\* C12: in the per-user selector a failure raised by the generation or
\* scoring call of one approach is caught for that approach only: no
\* selection ends by the exception, every approach of the component is
\* evaluated and an approach is returned, which is chain_of_thought when all
\* the calls failed.
C12_FailureCaughtPerApproach ==
  /\ pc = "raised" => DOMAIN approach = Range(Components)
  /\ Selected =>
       /\ Len(results) = Len(Approaches)
       /\ approach[Components[ci]] \in Range(Approaches)
       /\ AllCallsFailed => approach[Components[ci]] = "chain_of_thought"

\* prompt_evaluation has returned
Evaluated == epc = "done"

\* the (segment, component) pairs of the evaluation
SegmentComponents ==
  {<<eval_call.user_ids_by_segment[i].segment, c>> :
     i \in 1..Len(eval_call.user_ids_by_segment), c \in DOMAIN components}

\* the approaches of (segment, component) with success_rate > 0
QualifyingApproaches(segment, component) ==
  {a \in Range(components[component]) :
     FLess(Zero, segment_results[<<segment, component, a>>].success_rate)}

\* the largest value of field over the qualifying approaches, 1 when it is 0
Normalizer(segment, component, field) ==
  LET values == {segment_results[<<segment, component, a>>][field] :
                   a \in QualifyingApproaches(segment, component)}
      largest == CHOOSE x \in values : \A y \in values : ~FLess(x, y)
  IN  IF largest = Zero THEN One ELSE largest

\* 0.4*success_rate + 0.15*(1 - avg_response_time/maxTime)
\*   + 0.35*(1 - within_segment_similarity) + 0.1*(1 - avg_cost/maxCost),
\* in twentieths
WeightedScore(segment, component, a) ==
  LET m == segment_results[<<segment, component, a>>]
      maxTime == Normalizer(segment, component, "avg_response_time")
      maxCost == Normalizer(segment, component, "avg_cost")
  IN  FAdd(FAdd(FMul(Frac(8, 1), m.success_rate),
                FMul(Frac(3, 1), FSub(One, FDiv(m.avg_response_time, maxTime)))),
           FAdd(FMul(Frac(7, 1), FSub(One, m.within_segment_similarity)),
                FMul(Frac(2, 1), FSub(One, FDiv(m.avg_cost, maxCost)))))

\* the place of approach a in the registry of the component
DeclaredAt(component, a) ==
  CHOOSE i \in 1..Len(components[component]) : components[component][i] = a

\* C13: the best approach of a (segment, component) is determined by the
\* SegmentMetric values: none is chosen exactly when no approach has
\* success_rate > 0; the chosen approach has success_rate > 0; a single
\* qualifying approach is chosen; otherwise the chosen one has the largest
\* weighted score among the qualifying approaches, and every qualifying
\* approach declared before it has a strictly smaller score.
C13_BestApproachIsWeightedArgmax ==
  Evaluated =>
    \A k \in SegmentComponents :
       LET qualifying == QualifyingApproaches(k[1], k[2])
           chosen == best_approaches[k]
       IN  /\ chosen = NoApproach <=> qualifying = {}
           /\ chosen # NoApproach => chosen \in qualifying
           /\ qualifying # {} =>
                \A b \in qualifying :
                   /\ ~FLess(WeightedScore(k[1], k[2], chosen),
                             WeightedScore(k[1], k[2], b))
                   /\ DeclaredAt(k[2], b) < DeclaredAt(k[2], chosen) =>
                        FLess(WeightedScore(k[1], k[2], b),
                              WeightedScore(k[1], k[2], chosen))

\* C13 witness: three approaches qualify and the one declared last is chosen,
\* for another component of the segment no approach qualifies, and somewhere
\* two qualifying approaches have the same score and the one declared first
\* is chosen
C13_Witness ==
  /\ Evaluated
  /\ \E k \in SegmentComponents :
        /\ Cardinality(QualifyingApproaches(k[1], k[2])) = 3
        /\ best_approaches[k] = "chain_of_thought"
        /\ \E j \in SegmentComponents : j[1] = k[1] /\ best_approaches[j] = NoApproach
  /\ \E k \in SegmentComponents :
        \E b \in QualifyingApproaches(k[1], k[2]) :
           /\ b # best_approaches[k]
           /\ WeightedScore(k[1], k[2], b) = WeightedScore(k[1], k[2], best_approaches[k])

\* the averages of segment_results are computed
Averaged == epc \in {"averaged", "done"}

\* the users of the segment, in the order of the grouping
UsersOf(segment) ==
  LET i == CHOOSE j \in 1..Len(eval_call.user_ids_by_segment) :
             eval_call.user_ids_by_segment[j].segment = segment
  IN  eval_call.user_ids_by_segment[i].user_ids

\* a CandidateResult is recorded for (segment, user, component, approach)
Recorded(segment, u, component, a) ==
  /\ user_key(segment, u) \in DOMAIN detailed_results
  /\ component \in DOMAIN detailed_results[user_key(segment, u)]
  /\ a \in DOMAIN detailed_results[user_key(segment, u)][component]

\* the recorded candidates of (segment, component, approach), in user order
CandidatesOf(segment, component, a) ==
  LET users == SelectSeq(UsersOf(segment), LAMBDA u : Recorded(segment, u, component, a))
  IN  [i \in 1..Len(users) |->
         detailed_results[user_key(segment, users[i])][component][a]]

RECURSIVE SumField(_, _)
SumField(rs, field) ==
  IF rs = <<>> THEN 0 ELSE Head(rs)[field] + SumField(Tail(rs), field)

\* C14: after the averages are computed, for every (segment, component,
\* approach) success_rate is the number of successful candidates over the
\* number of candidates evaluated and lies in [0, 1]; avg_response_time and
\* avg_cost are the means of response_time and cost over the successful
\* candidates only; all three are 0 when no candidate succeeded.
C14_RatesAndAveragesOverSuccesses ==
  Averaged =>
    \A k \in DOMAIN segment_results :
       LET all == CandidatesOf(k[1], k[2], k[3])
           successes == SelectSeq(all, LAMBDA r : r.success)
           m == segment_results[k]
       IN  /\ ~FLess(m.success_rate, Zero) /\ ~FLess(One, m.success_rate)
           /\ IF successes = <<>>
              THEN /\ m.success_rate = Zero
                   /\ m.avg_response_time = Zero
                   /\ m.avg_cost = Zero
              ELSE /\ m.success_rate = Frac(Len(successes), Len(all))
                   /\ m.avg_response_time =
                        Frac(SumField(successes, "response_time"), Len(successes))
                   /\ m.avg_cost = Frac(SumField(successes, "cost"), Len(successes))

\* C14 witness: of two candidates of an approach one succeeded and one
\* failed, and of two candidates of another both succeeded with different
\* response times
C14_Witness ==
  /\ Averaged
  /\ \E k \in DOMAIN segment_results :
        LET all == CandidatesOf(k[1], k[2], k[3])
        IN  /\ Len(all) = 2
            /\ all[1].success /\ ~all[2].success
  /\ \E k \in DOMAIN segment_results :
        LET all == CandidatesOf(k[1], k[2], k[3])
        IN  /\ Len(all) = 2
            /\ all[1].success /\ all[2].success
            /\ all[1].response_time # all[2].response_time

\* C15: prompt_evaluation records exactly one CandidateResult for every
\* (segment, user, component, approach) of the grouping and the registry and
\* counts it in total_users, which so equals the number of users of the
\* segment for every approach; a candidate whose generation call raised is
\* recorded with success = false and the run goes on to the end.
C15_OneResultPerTuple ==
  Averaged =>
    \A k \in DOMAIN segment_results :
       /\ \A i \in 1..Len(UsersOf(k[1])) :
             Recorded(k[1], UsersOf(k[1])[i], k[2], k[3])
       /\ segment_results[k].total_users = Len(UsersOf(k[1]))

\* the record has every required field
WellFormed(t) == RequiredFields \subseteq DOMAIN t

\* C16: when insert_transactions is given a batch in which a record lacks a
\* required field, the insert does not fail and the table is extended by
\* exactly the other records of the batch, in their order.
C16_MalformedRecordSkipped ==
  [][(op.name = "none" /\ op'.name = "insert_transactions") =>
       LET good == SelectSeq(op'.transactions, WellFormed)
       IN  /\ ret'.status = "ok"
           /\ store' = store \o [i \in 1..Len(good) |-> ProcessedRow(good[i])]]_vars

\* the aggregation queries that take a month
MonthQueries == {"monthly_profile", "active_users", "get_segment_users"}

\* C17: monthly_profile, active_users and get_segment_users, called with a
\* month outside 1..12, fail with the invalid-argument error (they do not
\* return a result) and leave the store unchanged. For monthly_profile the
\* user is one of the ingested data (an unknown user is the case of C18).
C17_InvalidMonthFailsFast ==
  [][(/\ Idle
      /\ op'.name \in MonthQueries
      /\ ~(op'.month \in 1..12)
      /\ op'.name = "monthly_profile" => op'.user_id \in user_ids)
     => (ret'.status = "ValueError" /\ store' = store)]_vars

\* C18: a profile query for a user_id that is not in the ingested data
\* returns the not-found error value to the caller, whatever the month, and
\* never raises; the store is unchanged.
C18_UnknownUserGetsSentinel ==
  [][(/\ Idle
      /\ op'.name = "monthly_profile"
      /\ op'.user_id \notin user_ids)
     => (/\ ret'.status = "ok"
         /\ ret'.value = UserNotFound(op'.user_id)
         /\ store' = store)]_vars

\* C18 witness: the data has a user, and a profile query for another user
\* and an existing month returned the not-found value
C18_Witness ==
  /\ op.name = "monthly_profile"
  /\ op.month \in 1..12
  /\ user_ids # {}
  /\ op.user_id \notin user_ids
  /\ ret = Returned(UserNotFound(op.user_id))

\* C19: the profile renderer never raises: for every user_id, year, month
\* and store content monthly_profile returns a string, in particular for a
\* known user and a valid month.
C19_MonthlyProfileNeverRaises ==
  op.name = "monthly_profile" => ret.status = "ok"

\* 100 * method_total / total_spend to 2 decimals, in hundredths of a percent
RenderedPercentage(method_total, total_spend) ==
  (method_total * 10000 * 2 + total_spend) \div (2 * total_spend)

\* the breakdown the profile of a month should list: one entry per SPEND
\* method with its rendered percentage
SpendBreakdown(profile) ==
  LET spend == EntriesOfType(profile.methods_summary, "SPEND")
  IN  [i \in 1..Len(spend) |->
        [method |-> spend[i].method,
         percentage |-> RenderedPercentage(spend[i].total_amount,
                                           profile.total_spend)]]

RECURSIVE SumPercentage(_)
SumPercentage(b) ==
  IF b = <<>> THEN 0 ELSE Head(b).percentage + SumPercentage(Tail(b))

\* C20: whenever total_spend > 0 the rendered profile lists each SPEND method
\* with percentage = 100 * method_total / total_spend to 2 decimals, and the
\* rendered percentages add up to 100.0 within 0.01 per method.
C20_PercentageClosure ==
  (/\ op.name = "monthly_profile"
   /\ op.user_id \in user_ids
   /\ op.month \in 1..12
   /\ get_monthly_profile(op.user_id, op.year, op.month).total_spend > 0)
  => LET profile == get_monthly_profile(op.user_id, op.year, op.month)
         breakdown == SpendBreakdown(profile)
         distance == SumPercentage(breakdown) - 10000
     IN  /\ ret.status = "ok"
         /\ "lines" \in DOMAIN ret.value
         /\ \E i \in 1..Len(ret.value.lines) :
              /\ "methods" \in DOMAIN ret.value.lines[i]
              /\ ret.value.lines[i].methods = breakdown
         /\ distance <= Len(breakdown)
         /\ 0 - distance <= Len(breakdown)

\* C21 (as stated): a SELECT of a profile query that runs while an insert
\* has written some but not all rows of its batch reads the rows written so
\* far, so the profile reflects a part of the batch.
C21_ReaderSeesRowsAsWritten ==
  (/\ reader.pc = "methods"
   /\ writer.pc = "executemany"
   /\ reader.during = Len(rows_written)
   /\ 0 < reader.during /\ reader.during < Len(writer.processed_data))
  => LET seen == SelectSeq(store \o rows_written, LAMBDA r :
                   /\ r.user_id = reader.user_id
                   /\ r.year = reader.year /\ r.month = reader.month)
     IN  reader.stats.spend_count + reader.stats.cash_in_count = Len(seen)

\* C21 (corrected): the batch of an insert_transactions call becomes visible
\* as a whole. The table read by the SELECTs changes only at the commit of a
\* writer that has inserted all its rows, and then by the whole batch, so a
\* profile query that runs during an insert reflects none of its rows and
\* one that runs after it all of them.
C21_BatchVisibleAsAWhole ==
  [][store' # store =>
       /\ writer.pc = "executemany"
       /\ writer.pending = <<>>
       /\ writer'.pc = "idle"
       /\ store' = store \o writer.processed_data]_vars

\* C21 witness: the stats SELECT ran while the writer had inserted one row
\* of user u1 out of a batch of at least two, and it counted no row
C21_Witness ==
  /\ reader.pc = "methods"
  /\ reader.user_id = "u1" /\ reader.month = 3
  /\ writer.pc = "executemany"
  /\ Len(writer.processed_data) >= 2
  /\ reader.during = Len(rows_written)
  /\ 0 < reader.during /\ reader.during < Len(writer.processed_data)
  /\ reader.stats.spend_count = 0

\* C27: a profile returned by get_monthly_profile is internally consistent
\* even when an insert commits while the query runs: the amounts and counts
\* of methods_summary add up, per type, to the totals and counts of the
\* profile, and a profile that counts no row lists no segment.
C27_ProfileFromOneSnapshot ==
  op.name = "get_monthly_profile" =>
    LET profile == ret.value
        spend == EntriesOfType(profile.methods_summary, "SPEND")
        cash_in == EntriesOfType(profile.methods_summary, "CASH-IN")
    IN  /\ SumTotalAmount(spend) = profile.total_spend
        /\ SumCount(spend) = profile.spend_count
        /\ SumTotalAmount(cash_in) = profile.total_cash_in
        /\ SumCount(cash_in) = profile.cash_in_count
        /\ profile.spend_count + profile.cash_in_count = 0 => profile.segments = {}

\* the amount of a row is missing, empty, NaN or not parsable as a number
MalformedAmount(row) ==
  /\ "amount" \notin DOMAIN row
  /\ "amount_object" \in DOMAIN row =>
       row.amount_object \in {NoneValue, NaNValue, Str(""), Str("abc")}

\* the fields of a record other than its amount
Identifying(row) == [k \in RequiredFields |-> row[k]]

\* C22: ingestion never rejects a record because of its amount. Every row
\* of the file is stored at each construction, with its other fields
\* unchanged; a row whose amount is missing, empty, NaN or not parsable as a
\* number is stored with amount 0, and every stored amount is a number.
C22_MalformedAmountStoredAsZero ==
  /\ Len(store) = constructed * Len(data)
  /\ \A k \in 1..constructed : \A i \in 1..Len(data) :
       LET stored == store[(k - 1) * Len(data) + i]
       IN  /\ Identifying(stored) = Identifying(data[i])
           /\ stored.amount \in Int
           /\ MalformedAmount(data[i]) => stored.amount = 0
           /\ "amount" \in DOMAIN data[i] => stored.amount = data[i].amount

\* C22 witness: a file with a text that is no number and an empty (NaN)
\* cell was ingested, and both rows are stored with amount 0
C22_Witness ==
  /\ constructed = 1
  /\ Len(data) = 2
  /\ get_amount(data[1]) = Str("abc")
  /\ get_amount(data[2]) = NaNValue
  /\ Len(store) = 2
  /\ store[1].amount = 0 /\ store[2].amount = 0

\* year and month of every stored row are those of its timestamp
RowsDerivedFromTimestamp ==
  \A i \in 1..Len(store) :
    /\ store[i].year = store[i].timestamp.year
    /\ store[i].month = store[i].timestamp.month
    /\ store[i].month \in 1..12

\* C23: the transaction table is append-only and its rows are immutable.
\* Every stored row has the year and month (1..12) of its timestamp; every
\* operation leaves each row stored before it in place with all fields
\* unchanged; and the queries change nothing in the store.
C23_AppendOnlyStore ==
  /\ []RowsDerivedFromTimestamp
  /\ [][/\ Len(store') >= Len(store)
        /\ SubSeq(store', 1, Len(store)) = store
        /\ op'.name # "DataFetcher" => store' = store]_vars

\* C23 witness: the file was ingested twice, the rows of the first ingestion
\* are the first rows of the table, and a query has run since
C23_Witness ==
  /\ constructed = 2
  /\ Len(data) >= 1
  /\ Len(store) = 2 * Len(data)
  /\ SubSeq(store, 1, Len(data)) = insert_transactions(<<>>, transactions_of(data))
  /\ op.name = "get_user_segment_stats"

\* the candidates of the current component that were given a score
Scored == SelectSeq(results, LAMBDA r : r.status = "ok")

\* C24: the per-user selector returns the approach with the maximum
\* similarity score over all scored candidates of the component, the one
\* declared first when several share the maximum; and while the candidates
\* are evaluated, the best so far is replaced only by a strictly greater
\* score.
C24_FirstMaximumWins ==
  /\ [](pc = "selected" /\ Scored # <<>> =>
          \E i \in 1..Len(Scored) :
            /\ approach[Components[ci]] = Scored[i].approach
            /\ \A j \in 1..Len(Scored) : Scored[j].similarity <= Scored[i].similarity
            /\ \A j \in 1..(i - 1) : Scored[j].similarity < Scored[i].similarity)
  /\ [][pc = "select" /\ pc' = "select" /\ chosen_approach' # chosen_approach
          => best_similarity' > best_similarity]_vars

\* C24 witness: generate_report scored three candidates, the second and the
\* third share the maximum, and the second was returned
C24_Witness ==
  /\ caller = "generate_report" /\ pc = "selected"
  /\ Len(Scored) = 3
  /\ Scored[1].similarity < Scored[2].similarity
  /\ Scored[2].similarity = Scored[3].similarity
  /\ approach[Components[ci]] = "few_shot"

RECURSIVE DistinctPairSum(_, _, _)
\* the sum of the similarity of outputs[i] and outputs[j] over the ordered
\* pairs with i # j
DistinctPairSum(outputs, i, j) ==
  IF i > Len(outputs) THEN 0
  ELSE IF j > Len(outputs) THEN DistinctPairSum(outputs, i + 1, 1)
  ELSE (IF i = j THEN 0 ELSE TextCosine(outputs[i], outputs[j]))
       + DistinctPairSum(outputs, i, j + 1)

\* C25: within_segment_similarity of a (segment, component, approach) is the
\* average of the pairwise similarity over the pairs of distinct successful
\* outputs, it lies in [0, 1], and it is 0 when there are fewer than two
\* successful outputs.
C25_WithinSegmentSimilarity ==
  Averaged =>
    \A k \in DOMAIN segment_results :
       LET successes == SelectSeq(CandidatesOf(k[1], k[2], k[3]), LAMBDA r : r.success)
           outputs == [i \in 1..Len(successes) |-> successes[i].output]
           n == Len(outputs)
           within == segment_results[k].within_segment_similarity
       IN  /\ ~FLess(within, Zero) /\ ~FLess(One, within)
           /\ within = IF n < 2 THEN Zero
                       ELSE Frac(DistinctPairSum(outputs, 1, 1), n * (n - 1))

\* the texts of the successful candidates of a (segment, component, approach)
SuccessfulOutputs(segment, component, a) ==
  LET successes == SelectSeq(CandidatesOf(segment, component, a),
                             LAMBDA r : r.success /\ r.output.chars > 0)
  IN  [i \in 1..Len(successes) |-> successes[i].output]

\* C26: for a (component, approach) with at least two segments that have a
\* successful output, every unordered pair of those segments has exactly one
\* cross-segment entry, never both orders and never a segment with itself,
\* and the entry is the mean similarity over the pairs of an output of the
\* one and an output of the other segment; with fewer than two such segments
\* there is no entry; identical single outputs in two segments give 1.
C26_CrossSegmentSimilarity ==
  Averaged =>
    \A k \in DOMAIN cross_segment_similarity :
       LET Q == {g \in Range(segment_order) :
                   Len(SuccessfulOutputs(g, k[1], k[2])) > 0}
           cross == cross_segment_similarity[k]
           HasEntry(s1, s2) == s1 \in DOMAIN cross /\ s2 \in DOMAIN cross[s1]
       IN  IF Cardinality(Q) < 2 THEN cross = <<>>
           ELSE /\ DOMAIN cross \subseteq Q
                /\ \A s1 \in DOMAIN cross : DOMAIN cross[s1] \subseteq Q \ {s1}
                /\ \A s1, s2 \in Q :
                     s1 # s2 => (HasEntry(s1, s2) # HasEntry(s2, s1))
                /\ \A s1 \in DOMAIN cross : \A s2 \in DOMAIN cross[s1] :
                     LET outputs1 == SuccessfulOutputs(s1, k[1], k[2])
                         outputs2 == SuccessfulOutputs(s2, k[1], k[2])
                     IN  /\ cross[s1][s2] =
                              Frac(CrossSum(outputs1, outputs2, 1, 1),
                                   Len(outputs1) * Len(outputs2))
                         /\ Len(outputs1) = 1 /\ Len(outputs2) = 1
                              /\ outputs1[1] = outputs2[1]
                            => cross[s1][s2] = One

\* the part of C26 about which entries exist and what they average, without
\* the value of identical outputs
CrossSegmentEntries ==
  Averaged =>
    \A k \in DOMAIN cross_segment_similarity :
       LET Q == {g \in Range(segment_order) :
                   Len(SuccessfulOutputs(g, k[1], k[2])) > 0}
           cross == cross_segment_similarity[k]
           HasEntry(s1, s2) == s1 \in DOMAIN cross /\ s2 \in DOMAIN cross[s1]
       IN  IF Cardinality(Q) < 2 THEN cross = <<>>
           ELSE /\ DOMAIN cross \subseteq Q
                /\ \A s1 \in DOMAIN cross : DOMAIN cross[s1] \subseteq Q \ {s1}
                /\ \A s1, s2 \in Q :
                     s1 # s2 => (HasEntry(s1, s2) # HasEntry(s2, s1))
                /\ \A s1 \in DOMAIN cross : \A s2 \in DOMAIN cross[s1] :
                     cross[s1][s2] =
                       Frac(CrossSum(SuccessfulOutputs(s1, k[1], k[2]),
                                     SuccessfulOutputs(s2, k[1], k[2]), 1, 1),
                            Len(SuccessfulOutputs(s1, k[1], k[2]))
                              * Len(SuccessfulOutputs(s2, k[1], k[2])))

\* the transaction count of a user that active_users compares with
\* min_transactions
CountCompared(user_id, year, month) ==
  LET c == SelectSeq(monthly_transactions_by_user(year, month),
                     LAMBDA e : e.user_id = user_id)
  IN  IF c = <<>> THEN 0 ELSE c[1].count

\* the transaction_count get_active_users computes for a user between the
\* first and the last datetime of the month
CountBetween(user_id, year, month) ==
  LET found == {r \in get_active_users(month_start_date(year, month),
                                        month_end_date(year, month), 1) :
                  r.user_id = user_id}
  IN  IF found = {} THEN 0 ELSE (CHOOSE r \in found : TRUE).transaction_count

\* C28: for every user and month, the transaction count that active_users
\* compares with min_transactions, and the count get_active_users computes,
\* equal the number of store rows of that user with the derived year and
\* month, which are the rows get_monthly_profile aggregates.
C28_OneDefinitionOfMonthlyTransactions ==
  IsActiveCall =>
    \A u \in UserIds :
       /\ CountCompared(u, op.year, op.month) = Len(MonthRows(u, op.year, op.month))
       /\ CountBetween(u, op.year, op.month) = Len(MonthRows(u, op.year, op.month))

\* the count get_active_users computes agrees with the rows
\* get_monthly_profile aggregates when no row of the file is of the last
\* day of a month
OneDefinitionBeforeLastDay ==
  IsActiveCall /\ (\A i \in 1..Len(data) : data[i].timestamp.day < 28) =>
    \A u \in UserIds :
       CountBetween(u, op.year, op.month) = Len(MonthRows(u, op.year, op.month))

\* C30: no chain is invoked with a prompt built from an error value of
\* monthly_profile: a user whose profile is 'Error: ...' (unknown user_id or
\* invalid month) is skipped, and no candidate is generated or recorded for
\* that user.
C30_ErrorProfileSkipsUser ==
  LET grouping == eval_call.user_ids_by_segment
  IN  /\ epc = "process" /\ pos.s <= Len(grouping) /\ pos.c >= 1
           => "error" \notin DOMAIN transaction_summary
      /\ \A s \in 1..Len(grouping) : \A u \in 1..Len(grouping[s].user_ids) :
            LET fetched == monthly_profile(eval_call.year, eval_call.month,
                                           grouping[s].user_ids[u])
            IN  fetched.status = "ok" /\ "error" \in DOMAIN fetched.value
                  => user_key(grouping[s].segment, grouping[s].user_ids[u])
                       \notin DOMAIN detailed_results

\* C29: when generate_report chooses the approaches itself, the text stored
\* in report_components for a component is the output of the candidate that
\* _best_approach scored and chose, and the chain of a (component, approach)
\* is invoked once: the chosen candidate is not generated again.
C29_ReportTextIsTheScoredWinner ==
  caller = "generate_report" =>
    /\ \A k \in ChainKeys : invocations[k] <= 1
    /\ \A c \in 1..Len(Components) :
          (pc = "done" \/ (pc = "generate" /\ c < ci))
            => report_components[Components[c]] = selected_output[Components[c]]

====
